---- MODULE Spec2Model ----
(***************************************************************************)
(* Header-rewriting engine of pyannotate (src/pyannotate/annotate_headers).*)
(* File contents, lines and headers are TLA+ strings, read character by    *)
(* character, so that every strip, prefix test, search and join of the     *)
(* Python code is computed rather than assumed.  Line ends are "\n".       *)
(***************************************************************************)
EXTENDS Integers, Sequences, FiniteSets, TLC

VARIABLES
    file,       \* name of the file under the project root (Path.name)
    content,    \* text of the file on disk
    orig,       \* text of the file before the first pass
    prev,       \* text of the file before the latest pass
    status,     \* status returned by the latest process_file call
    passes,     \* number of process_file calls made so far
    fn,         \* pure function exercised by the function specifications
    arg,        \* its arguments
    res,        \* its result
    config,     \* the configuration: ignored_files and ignored_directories
    faults,     \* what the file system refuses: pairs <<path, operation>>
    tree,       \* a project tree: the text of every file, by relative path
    backup      \* the backup file of the tree: <<>> or <<path -> text>>

vars == <<file, content, orig, prev, status, passes, fn, arg, res, config, faults, tree, backup>>

-----------------------------------------------------------------------------
(* Bounds of the model.                                                    *)

MaxLines == 2      \* lines of an initial file after its preamble
MaxPasses == 3     \* consecutive process_file calls on one file
MaxBody == 3       \* body lines handed to the assembler
MaxHeader == 3     \* lines of an existing header handed to the merger

-----------------------------------------------------------------------------
(* Python str primitives.                                                  *)

Min(S) == CHOOSE m \in S : \A n \in S : m <= n

IsSpace(c) == c \in {" ", "\t", "\n", "\r"}

StartsWith(s, p) == Len(p) <= Len(s) /\ SubSeq(s, 1, Len(p)) = p

EndsWith(s, p) == Len(p) <= Len(s) /\ SubSeq(s, Len(s) - Len(p) + 1, Len(s)) = p

\* s[i:] with a 0-based index i
From(s, i) == IF i >= Len(s) THEN "" ELSE SubSeq(s, i + 1, Len(s))

\* s[:i] with a 0-based index i
Upto(s, i) == IF i <= 0 THEN "" ELSE SubSeq(s, 1, IF i > Len(s) THEN Len(s) ELSE i)

RECURSIVE FindFrom(_, _, _)
FindFrom(s, p, i) ==
    IF i + Len(p) > Len(s) THEN -1
    ELSE IF SubSeq(s, i + 1, i + Len(p)) = p THEN i
    ELSE FindFrom(s, p, i + 1)

\* str.find: 0-based index of the first occurrence, -1 when absent
Find(s, p) == FindFrom(s, p, 0)

RECURSIVE RFindFrom(_, _, _)
RFindFrom(s, p, i) ==
    IF i < 0 THEN -1
    ELSE IF SubSeq(s, i + 1, i + Len(p)) = p THEN i
    ELSE RFindFrom(s, p, i - 1)

\* str.rfind
RFind(s, p) == RFindFrom(s, p, Len(s) - Len(p))

\* p in s
Contains(s, p) == Find(s, p) # -1

RECURSIVE LStrip(_)
LStrip(s) ==
    IF s # "" /\ IsSpace(SubSeq(s, 1, 1)) THEN LStrip(SubSeq(s, 2, Len(s))) ELSE s

RECURSIVE RStrip(_)
RStrip(s) ==
    IF s # "" /\ IsSpace(SubSeq(s, Len(s), Len(s)))
    THEN RStrip(SubSeq(s, 1, Len(s) - 1)) ELSE s

\* str.strip()
Strip(s) == LStrip(RStrip(s))

RECURSIVE RStripNL(_)
\* str.rstrip("\n")
RStripNL(s) ==
    IF s # "" /\ SubSeq(s, Len(s), Len(s)) = "\n"
    THEN RStripNL(SubSeq(s, 1, Len(s) - 1)) ELSE s

UpperChars ==
    {"A", "B", "C", "D", "E", "F", "G", "H", "I", "J", "K", "L", "M",
     "N", "O", "P", "Q", "R", "S", "T", "U", "V", "W", "X", "Y", "Z"}

LowerMap ==
    [c \in UpperChars |->
        CASE c = "A" -> "a" [] c = "B" -> "b" [] c = "C" -> "c" [] c = "D" -> "d"
          [] c = "E" -> "e" [] c = "F" -> "f" [] c = "G" -> "g" [] c = "H" -> "h"
          [] c = "I" -> "i" [] c = "J" -> "j" [] c = "K" -> "k" [] c = "L" -> "l"
          [] c = "M" -> "m" [] c = "N" -> "n" [] c = "O" -> "o" [] c = "P" -> "p"
          [] c = "Q" -> "q" [] c = "R" -> "r" [] c = "S" -> "s" [] c = "T" -> "t"
          [] c = "U" -> "u" [] c = "V" -> "v" [] c = "W" -> "w" [] c = "X" -> "x"
          [] c = "Y" -> "y" [] c = "Z" -> "z"]

LowerChar(c) == IF c \in UpperChars THEN LowerMap[c] ELSE c

RECURSIVE Lower(_)
\* str.lower()
Lower(s) == IF s = "" THEN "" ELSE LowerChar(SubSeq(s, 1, 1)) \o Lower(SubSeq(s, 2, Len(s)))

RECURSIVE Replace(_, _, _)
\* str.replace(old, new), old non-empty
Replace(s, old, new) ==
    LET i == Find(s, old) IN
    IF i = -1 THEN s
    ELSE Upto(s, i) \o new \o Replace(From(s, i + Len(old)), old, new)

RECURSIVE Split(_, _)
\* str.split(sep), sep non-empty
Split(s, sep) ==
    LET i == Find(s, sep) IN
    IF i = -1 THEN <<s>>
    ELSE <<Upto(s, i)>> \o Split(From(s, i + Len(sep)), sep)

\* str.splitlines() of a text whose only line boundary is "\n"
SplitLines(s) ==
    LET parts == Split(s, "\n") IN
    IF s = "" THEN <<>>
    ELSE IF parts[Len(parts)] = "" THEN SubSeq(parts, 1, Len(parts) - 1)
    ELSE parts

RECURSIVE Join(_, _)
\* sep.join(seq)
Join(seq, sep) ==
    IF seq = <<>> THEN ""
    ELSE IF Len(seq) = 1 THEN seq[1]
    ELSE seq[1] \o sep \o Join(Tail(seq), sep)

\* seq[i:] with a 0-based index i
Drop(seq, i) == IF i >= Len(seq) THEN <<>> ELSE SubSeq(seq, i + 1, Len(seq))

\* seq[:i] with a 0-based index i
Take(seq, i) == IF i <= 0 THEN <<>> ELSE SubSeq(seq, 1, IF i > Len(seq) THEN Len(seq) ELSE i)

-----------------------------------------------------------------------------
(* Comment-dialect registry and eligibility tables (module constants).     *)

PATTERNS ==
  <<
    <<<<".py", ".sh", ".bash", ".ps1", ".zsh", ".fish">>, "#", "">>,
    <<<<".js", ".jsx", ".tsx", ".ts", ".c", ".cpp", ".h", ".hpp", ".cs", ".java", ".swift", ".kt", ".scala", ".dart">>, "//", "">>,
    <<<<".html", ".htm", ".xml", ".ui", ".qrc", ".xaml">>, "<!--", "-->">>,
    <<<<".css", ".scss", ".sass", ".less">>, "/*", "*/">>,
    <<<<".vue", ".svelte">>, "<!--", "-->">>,
    <<<<".jsx", ".tsx">>, "//", "">>,
    <<<<".astro">>, "<!--", "-->">>,
    <<<<".json5">>, "//", "">>,
    <<<<".toml", ".conf", ".cfg", ".ini">>, "#", "">>,
    <<<<".properties">>, "#", "">>,
    <<<<".yaml", ".yml">>, "#", "">>,
    <<<<".pl", ".pm">>, "#", "">>,
    <<<<".rb">>, "#", "">>,
    <<<<".lua">>, "--", "">>,
    <<<<".vhd", ".vhdl">>, "--", "">>,
    <<<<".adb", ".ads">>, "--", "">>,
    <<<<".tcl">>, "#", "">>,
    <<<<".php">>, "//", "">>,
    <<<<".cmd", ".bat">>, "REM", "">>,
    <<<<".ps1", ".psm1", ".psd1">>, "#", "">>,
    <<<<".go">>, "//", "">>,
    <<<<".rs">>, "//", "">>,
    <<<<".zig">>, "//", "">>,
    <<<<".m", ".mm">>, "//", "">>,
    <<<<".groovy">>, "//", "">>,
    <<<<".fs", ".fsx", ".fsi">>, "//", "">>,
    <<<<".v">>, "//", "">>,
    <<<<".ex", ".exs">>, "#", "">>,
    <<<<".erl", ".hrl">>, "%", "">>,
    <<<<".hs">>, "--", "">>,
    <<<<".ml", ".mli">>, "(*", "*)">>,
    <<<<".pas", ".pp">>, "//", "">>,
    <<<<".asm", ".s">>, ";", "">>,
    <<<<".vb">>, "'", "">>,
    <<<<".lisp", ".cl", ".el">>, ";;", "">>,
    <<<<".clj", ".cljs", ".cljc">>, ";;", "">>,
    <<<<".r", ".R">>, "#", "">>,
    <<<<".jl">>, "#", "">>,
    <<<<".nim">>, "#", "">>,
    <<<<".cr">>, "#", "">>,
    <<<<".nix">>, "#", "">>,
    <<<<".tf", ".tfvars">>, "#", "">>,
    <<<<".hcl">>, "#", "">>,
    <<<<".rst">>, ".. ", "">>,
    <<<<".sql">>, "--", "">>,
    <<<<".cob", ".cbl">>, "*", "">>,
    <<<<".f", ".f90", ".f95", ".f03", ".f08">>, "!", "">>,
    <<<<".pro", ".pri">>, "#", "">>,
    <<<<".ui", ".qrc">>, "<!--", "-->">>
  >>

SPECIAL_FILE_COMMENTS ==
  {
    <<".gitignore", "#", "">>,
    <<".dockerignore", "#", "">>,
    <<".env", "#", "">>,
    <<"Makefile", "#", "">>,
    <<"CMakeLists.txt", "#", "">>,
    <<".clang-format", "#", "">>,
    <<".editorconfig", "#", "">>,
    <<".gitlab-ci.yml", "#", "">>,
    <<".travis.yml", "#", "">>,
    <<".coveragerc", "#", "">>,
    <<".flake8", "#", "">>,
    <<".gitattributes", "#", "">>,
    <<".gitmodules", "#", "">>,
    <<".hgignore", "#", "">>,
    <<".hgsub", "#", "">>,
    <<".hgsubstate", "#", "">>,
    <<".hgtags", "#", "">>,
    <<".npmignore", "#", "">>,
    <<"Dockerfile", "#", "">>,
    <<"docker-compose.yml", "#", "">>,
    <<"docker-compose.yaml", "#", "">>,
    <<"Pipfile", "#", "">>,
    <<"Pipfile.lock", "#", "">>,
    <<"pyproject.toml", "#", "">>,
    <<"setup.cfg", "#", "">>,
    <<"setup.py", "#", "">>,
    <<"requirements.txt", "#", "">>,
    <<"requirements-dev.txt", "#", "">>,
    <<"package.json", "//", "">>,
    <<"tsconfig.json", "//", "">>,
    <<"jsconfig.json", "//", "">>,
    <<".eslintrc.json", "//", "">>,
    <<".prettierrc", "//", "">>,
    <<".stylelintrc", "//", "">>,
    <<".babelrc", "//", "">>,
    <<".browserslistrc", "#", "">>,
    <<".nvmrc", "#", "">>,
    <<".npmrc", "#", "">>,
    <<".yarnrc", "#", "">>,
    <<"yarn.lock", "#", "">>,
    <<"package-lock.json", "//", "">>,
    <<"pnpm-lock.yaml", "#", "">>,
    <<"composer.json", "//", "">>,
    <<"Gemfile", "#", "">>,
    <<"Gemfile.lock", "#", "">>,
    <<".rubocop.yml", "#", "">>,
    <<"go.mod", "//", "">>,
    <<"go.sum", "//", "">>,
    <<"Cargo.toml", "#", "">>,
    <<"Cargo.lock", "#", "">>,
    <<".htaccess", "#", "">>,
    <<"nginx.conf", "#", "">>,
    <<"webpack.config.js", "//", "">>,
    <<"rollup.config.js", "//", "">>,
    <<"vite.config.js", "//", "">>,
    <<"next.config.js", "//", "">>,
    <<"nuxt.config.js", "//", "">>,
    <<"svelte.config.js", "//", "">>,
    <<"astro.config.mjs", "//", "">>,
    <<"tailwind.config.js", "//", "">>,
    <<"postcss.config.js", "//", "">>,
    <<"Rakefile", "#", "">>,
    <<".clang-tidy", "#", "">>,
    <<".github", "#", "">>,
    <<".drone.yml", "#", "">>,
    <<".circleci", "#", "">>,
    <<".appveyor.yml", "#", "">>
  }

IGNORED_DIRS ==
  {
    "__pycache__", "node_modules", ".git", ".hg", ".svn", "venv", ".venv", "build", "dist",
    "icon", "OtherPic", "donate", ".next", ".nuxt", ".output", "out", ".cache",
    ".parcel-cache", ".yarn", ".pnpm-store", "coverage", "vendor", "bower_components"
  }

IGNORED_FILES ==
  {
    ".prettierrc", ".eslintrc", ".babelrc", ".stylelintrc", ".browserslistrc", ".nvmrc",
    ".npmrc", ".yarnrc", ".editorconfig", ".gitattributes", ".gitmodules", ".hgignore",
    ".hgsub", ".hgsubstate", ".hgtags", "requirements.txt", "requirements-dev.txt",
    "package-lock.json", "yarn.lock", "pnpm-lock.yaml", "Pipfile.lock", "poetry.lock",
    "Cargo.lock", "go.sum", "Procfile", "Brewfile", "Vagrantfile", "Rakefile",
    ".env.example", ".env.local", ".env.development", ".env.production", "LICENSE",
    "COPYING", "NOTICE", "AUTHORS", "CONTRIBUTORS", "CHANGELOG", "HISTORY",
    ".vscode/settings.json", ".idea/workspace.xml", ".idea/modules.xml"
  }

BINARY_EXTENSIONS ==
  {
    ".exe", ".dll", ".so", ".dylib", ".bin", ".a", ".lib", ".obj", ".o", ".png", ".jpg",
    ".jpeg", ".gif", ".ico", ".bmp", ".tiff", ".webp", ".avif", ".mp3", ".wav", ".ogg",
    ".flac", ".aac", ".m4a", ".mp4", ".avi", ".mov", ".mkv", ".webm", ".flv", ".wmv",
    ".zip", ".tar", ".gz", ".bz2", ".xz", ".7z", ".rar", ".pdf", ".doc", ".docx", ".xls",
    ".xlsx", ".ppt", ".pptx", ".qm", ".qmlc", ".jsc", ".pyc", ".pyo", ".pyd", ".class",
    ".jar", ".war", ".whl", ".db", ".sqlite", ".sqlite3", ".mdb", ".ttf", ".otf", ".woff",
    ".woff2", ".eot"
  }

-----------------------------------------------------------------------------
(* Paths.  A file is named by its path relative to the project root, with  *)
(* "/" between the parts.                                                  *)

\* Path.name
BaseName(path) ==
    LET i == RFind(path, "/") IN IF i = -1 THEN path ELSE From(path, i + 1)

\* the suffix of a file name
NameSuffix(name) ==
    LET i == RFind(name, ".") IN
    IF 0 < i /\ i < Len(name) - 1 THEN From(name, i) ELSE ""

\* Path.suffix
Suffix(path) == NameSuffix(BaseName(path))

\* _normalize_path(os.path.relpath(file_path, project_root))
RelativePath(name) == Replace(name, "\\", "/")

\* The zero byte of a binary file, written as a character of its own.
NUL == "\f"

\* config is None, or a configuration that ignores nothing more
NoConfig == [ignored_files |-> {}, ignored_directories |-> {}]

is_binary(name, text) ==
    \/ Lower(Suffix(name)) \in BINARY_EXTENSIONS
    \/ <<name, "read">> \in faults
    \/ Contains(Upto(text, 1024), NUL)

\* _should_skip_path that knows binary files only
should_skip_path_binary_only(name, text) ==
    \/ Lower(Suffix(name)) \in BINARY_EXTENSIONS
    \/ is_binary(name, text)

should_skip_path(name, text) ==
    \/ Lower(Suffix(name)) \in {".md", ".markdown", ".json"}
    \/ (Lower(BaseName(name)) = "license" /\ Suffix(name) = "")
    \/ BaseName(name) \in IGNORED_FILES
    \/ BaseName(name) \in config.ignored_files
    \/ Lower(Suffix(name)) \in BINARY_EXTENSIONS
    \/ is_binary(name, text)

is_qt_translation_file(name, text) ==
    /\ Lower(Suffix(name)) = ".ts"
    /\ \E m \in {"<?xml", "<!doctype ts", "<ts ", "<ts>"} : Contains(Lower(text), m)

\* f.readline().strip()
FirstLine(text) ==
    LET i == Find(text, "\n") IN Strip(IF i = -1 THEN text ELSE Upto(text, i))

\* The SPECIAL_FILE_COMMENTS entries of the file name (at most one).
\* the entries of the special table for a file name
SpecialEntries(base) == {e \in SPECIAL_FILE_COMMENTS : e[1] = base}

SpecialStyles(name) == SpecialEntries(BaseName(name))

\* The PATTERNS rules one of whose extensions ends the lowered path, in the
\* order of the table.
MatchingPatterns(path) ==
    SelectSeq(PATTERNS, LAMBDA p : \E j \in 1..Len(p[1]) : EndsWith(path, p[1][j]))

\* _get_comment_style with '#' for a file nothing matches, in place of None
ChooseStyle_hash_fallback(special, suffix, is_qt, rules, first_line) ==
    IF special # {}
    THEN LET e == CHOOSE e \in special : TRUE IN <<e[2], e[3]>>
    ELSE IF suffix \in {".vue", ".svelte", ".astro"} THEN <<"<!--", "-->">>
    ELSE IF suffix = ".ts" THEN (IF is_qt THEN <<"<!--", "-->">> ELSE <<"//", "">>)
    ELSE IF rules # <<>> THEN <<rules[1][2], rules[1][3]>>
    ELSE IF StartsWith(first_line, "//") THEN <<"//", "">>
    ELSE IF StartsWith(first_line, "/*") THEN <<"/*", "*/">>
    ELSE IF StartsWith(first_line, "<!--") THEN <<"<!--", "-->">>
    ELSE <<"#", "">>

\* The branches of _get_comment_style over what it has looked up: the special
\* entries of the name, the lowered suffix, the Qt sniff, the matching rules
\* and the stripped first line.  <<start, end>>, or <<>> for None.
ChooseStyle(special, suffix, is_qt, rules, first_line) ==
    IF special # {}
    THEN LET e == CHOOSE e \in special : TRUE IN <<e[2], e[3]>>
    ELSE IF suffix \in {".vue", ".svelte", ".astro"} THEN <<"<!--", "-->">>
    ELSE IF suffix = ".ts" THEN (IF is_qt THEN <<"<!--", "-->">> ELSE <<"//", "">>)
    ELSE IF rules # <<>> THEN <<rules[1][2], rules[1][3]>>
    ELSE IF StartsWith(first_line, "//") THEN <<"//", "">>
    ELSE IF StartsWith(first_line, "#") THEN <<"#", "">>
    ELSE IF StartsWith(first_line, "/*") THEN <<"/*", "*/">>
    ELSE IF StartsWith(first_line, "<!--") THEN <<"<!--", "-->">>
    ELSE <<>>

\* <<start, end>> of the dialect, <<>> for None
get_comment_style(name, text) ==
    ChooseStyle(SpecialStyles(name), Lower(Suffix(name)), is_qt_translation_file(name, text),
                MatchingPatterns(Lower(name)), FirstLine(text))

is_special_xml_file(name) ==
    Lower(Suffix(name)) \in
        {".html", ".htm", ".xhtml", ".xml", ".ui", ".qrc", ".ts", ".vue", ".svelte",
         ".astro", ".wxml", ".blade.php", ".mdx", ".jsx", ".tsx"}

-----------------------------------------------------------------------------
(* Header composer.                                                        *)

create_header_line(comment_start, comment_end, header) ==
    IF comment_end # "" THEN comment_start \o " " \o header \o " " \o comment_end
    ELSE comment_start \o " " \o header

\* the tail of _create_header: every header line wrapped in the dialect, "#"
\* when the file has none, and the lines joined
FormatHeader(style, header_lines) ==
    LET comment_start == IF style # <<>> THEN style[1] ELSE "#"
        comment_end == IF style # <<>> THEN style[2] ELSE ""
    IN Join([k \in 1..Len(header_lines) |->
                IF comment_end # ""
                THEN comment_start \o " " \o header_lines[k] \o " " \o comment_end
                ELSE comment_start \o " " \o header_lines[k]], "\n")

\* HeaderConfig with its defaults: "" stands for None
NoHeader ==
    [template |-> "", author |-> "", author_email |-> "", version |-> "",
     include_date |-> FALSE]

\* datetime.now().strftime(config.header.date_format) on the day of the run
Today == "2024-01-05"

\* Path.stem
FileStem(name) ==
    LET base == BaseName(name) IN Upto(base, Len(base) - Len(NameSuffix(base)))

\* _normalize_path(os.path.relpath(file_path.parent, project_root))
FileDir(name) ==
    LET i == RFind(name, "/") IN IF i = -1 THEN "." ELSE Upto(name, i)

\* the names _get_template_variables binds
VariableNames(header) ==
    {"file_path", "file_name", "file_stem", "file_suffix", "file_dir"}
    \cup (IF header.author # "" THEN {"author"} ELSE {})
    \cup (IF header.author_email # "" THEN {"author_email"} ELSE {})
    \cup (IF header.version # "" THEN {"version"} ELSE {})
    \cup (IF header.include_date THEN {"date"} ELSE {})

get_template_variables(name, header) ==
    [v \in VariableNames(header) |->
        CASE v = "file_path" -> RelativePath(name)
          [] v = "file_name" -> BaseName(name)
          [] v = "file_stem" -> FileStem(name)
          [] v = "file_suffix" -> Suffix(name)
          [] v = "file_dir" -> FileDir(name)
          [] v = "author" -> header.author
          [] v = "author_email" -> header.author_email
          [] v = "version" -> header.version
          [] v = "date" -> Today]

\* variables.get(key, default)
Get(variables, key, default) ==
    IF key \in DOMAIN variables THEN variables[key] ELSE default

\* replace_var of _render_template: the value for the text between the braces
replace_var(var_expr, variables) ==
    LET bar == Find(var_expr, "|") IN
    IF bar # -1
    THEN Get(variables, Strip(Upto(var_expr, bar)), Strip(From(var_expr, bar + 1)))
    ELSE Get(variables, var_expr, "")

RECURSIVE Substitute(_, _)
\* re.sub(r"\{([^}]+)\}", replace_var, line): from left to right, an opening
\* brace, one or more characters other than a closing brace, a closing brace
Substitute(line, variables) ==
    LET open == Find(line, "{")
        close == Find(From(line, open + 1), "}")
    IN IF open = -1 THEN line
       ELSE IF close = -1 THEN line
       ELSE IF close = 0
       THEN Upto(line, open + 1) \o Substitute(From(line, open + 1), variables)
       ELSE Upto(line, open)
            \o replace_var(SubSeq(line, open + 2, open + 1 + close), variables)
            \o Substitute(From(line, open + 2 + close), variables)

\* one line of _render_template
RenderLine(line, variables, comment_start, comment_end) ==
    IF Strip(line) = "" THEN ""
    ELSE create_header_line(comment_start, comment_end, Substitute(line, variables))

render_template(template, variables, comment_start, comment_end) ==
    LET lines == SplitLines(template) IN
    Join([k \in 1..Len(lines) |->
             RenderLine(lines[k], variables, comment_start, comment_end)], "\n")

\* the header lines of the default format: the path, then the configured fields
DefaultHeaderLines(variables, header) ==
    <<"File: " \o variables["file_path"]>>
    \o (IF header.author # "" THEN <<"Author: " \o header.author>> ELSE <<>>)
    \o (IF header.author_email # "" THEN <<"Email: " \o header.author_email>> ELSE <<>>)
    \o (IF header.version # "" THEN <<"Version: " \o header.version>> ELSE <<>>)
    \o (IF header.include_date /\ "date" \in DOMAIN variables
        THEN <<"Date: " \o variables["date"]>> ELSE <<>>)

\* _create_header with a configuration
CreateConfigured(name, style, header) ==
    IF header.template # ""
    THEN render_template(header.template, get_template_variables(name, header),
                         IF style # <<>> THEN style[1] ELSE "#",
                         IF style # <<>> THEN style[2] ELSE "")
    ELSE FormatHeader(style, DefaultHeaderLines(get_template_variables(name, header), header))

\* _create_header: the one line "File: <relative path>" with no configuration
\* (a configuration record with no header field), else as configured
create_header(name, text) ==
    IF "header" \in DOMAIN config
    THEN CreateConfigured(name, get_comment_style(name, text), config.header)
    ELSE FormatHeader(get_comment_style(name, text), <<"File: " \o RelativePath(name)>>)

\* a faulty _process_empty_file: the header block with no newline after it
process_empty_file_bare(header_block) == header_block

process_empty_file(header_block) == header_block \o "\n"

-----------------------------------------------------------------------------
(* Header detector.                                                        *)

header_indicators(comment_start) ==
    { comment_start \o " File:", comment_start \o "File:", comment_start \o " file:",
      comment_start \o " Filename:", comment_start \o " @file",
      comment_start \o " Source:", comment_start \o " Path:" }

\* the check looking one line further than the second
has_existing_header_three_lines(lines, comment_start, start_index) ==
    /\ Drop(lines, start_index) # <<>>
    /\ \E i \in start_index .. (Min({start_index + 3, Len(lines)}) - 1) :
          \E ind \in header_indicators(comment_start) : StartsWith(Strip(lines[i + 1]), ind)

\* lines is a sequence, start_index is 0-based as in the source
has_existing_header(lines, comment_start, start_index) ==
    /\ Drop(lines, start_index) # <<>>
    /\ \E i \in start_index .. (Min({start_index + 2, Len(lines)}) - 1) :
          \E ind \in header_indicators(comment_start) : StartsWith(Strip(lines[i + 1]), ind)

RECURSIVE HeaderEnd(_, _, _, _, _)
\* the loop of _remove_existing_header: the last index of the header span
HeaderEnd(lines, comment_start, i, stop, header_end) ==
    IF i >= stop THEN header_end
    ELSE IF Strip(lines[i + 1]) = "" \/ StartsWith(Strip(lines[i + 1]), comment_start)
    THEN HeaderEnd(lines, comment_start, i + 1, stop, i)
    ELSE header_end

remove_existing_header(lines, comment_start, start_index) ==
    IF ~has_existing_header(lines, comment_start, start_index) THEN lines
    ELSE LET header_start == start_index
             header_end == HeaderEnd(lines, comment_start, start_index + 1,
                                     Min({Len(lines), start_index + 10}), start_index)
         IN Take(lines, header_start) \o Drop(lines, header_end + 1)

DetectMarkers ==
    << <<"#", "">>, <<"//", "">>, <<"/*", "*/">>, <<"<!--", "-->">>,
       <<"%", "">>, <<";", "">>, <<"--", "">>, <<"REM", "">> >>

DetectKeywords == <<"file:", "source:", "path:", "filename:", "@file">>

\* any(keyword in s for keyword in keywords)
ContainsAny(s, keywords) == \E keyword \in keywords : Contains(s, keyword)

\* the innermost loop of _detect_header_pattern: the pattern up to the end of
\* the first keyword of DetectKeywords found in the text after the marker
PatternOf(marker, text, lowered_text, found) ==
    IF found = <<>> THEN <<>>
    ELSE <<marker[1], marker[2], Upto(text, Find(lowered_text, found[1]) + Len(found[1]))>>

KeywordPattern(marker, text, lowered_text) ==
    PatternOf(marker, text, lowered_text,
              SelectSeq(DetectKeywords, LAMBDA keyword : Contains(lowered_text, keyword)))

\* the body of the two nested loops of _detect_header_pattern for one marker
\* and one stripped line: <<start, end, pattern>> when it returns, <<>> otherwise
DetectAt(marker, line, text) ==
    IF /\ line # ""
       /\ StartsWith(line, marker[1])
       /\ ContainsAny(Lower(line), {"file", "source", "path", "filename", "@file"})
    THEN KeywordPattern(marker, text, Lower(text))
    ELSE <<>>

\* r if the loop returned r at this step, what the later steps return otherwise
OrElse(r, later) == IF r # <<>> THEN r ELSE later

RECURSIVE DetectFrom(_, _)
\* the two nested loops of _detect_header_pattern from step p on; step p
\* stands for marker (p \div n) + 1 and line (p % n) + 1 of the n lines
DetectFrom(lines, p) ==
    IF p >= Len(DetectMarkers) * Len(lines) THEN <<>>
    ELSE LET marker == DetectMarkers[(p \div Len(lines)) + 1]
             line == lines[(p % Len(lines)) + 1]
         IN OrElse(DetectAt(marker, line, Strip(From(line, Len(marker[1])))),
                   DetectFrom(lines, p + 1))

\* the first ten lines of the file, stripped
StrippedHead(all) == [k \in 1..Min({10, Len(all)}) |-> Strip(all[k])]

\* <<start, end, pattern>> or <<>> for None; text is what the file holds on disk
detect_header_pattern(text) == DetectFrom(StrippedHead(SplitLines(text)), 0)

-----------------------------------------------------------------------------
(* Header merger.                                                          *)

\* a faulty loop body of _merge_headers: the end marker of the existing line
\* is left in the metadata text
MergeLine_keep_end(raw, comment_start, comment_end) ==
    LET line == Strip(raw)
        lowered == Lower(line)
        is_file_path_line ==
            \E keyword \in {"file:", "filename:", "path:", "@file"} :
                Contains(lowered, keyword) /\ Find(lowered, keyword) < 15
        metadata_text == Strip(From(line, Len(comment_start)))
    IN IF line = "" THEN <<>>
       ELSE IF ~is_file_path_line /\ StartsWith(line, comment_start) /\ metadata_text # ""
       THEN <<create_header_line(comment_start, comment_end, metadata_text)>>
       ELSE <<>>

\* one pass of the loop of _merge_headers: the rebuilt metadata line of one
\* line of the existing header, as a sequence of zero or one line
MergeLine(raw, comment_start, comment_end) ==
    LET line == Strip(raw)
        lowered == Lower(line)
        is_file_path_line ==
            \E keyword \in {"file:", "filename:", "path:", "@file"} :
                Contains(lowered, keyword) /\ Find(lowered, keyword) < 15
        text0 == Strip(From(line, Len(comment_start)))
        metadata_text ==
            IF comment_end # "" /\ Contains(text0, comment_end)
            THEN Strip(Upto(text0, RFind(text0, comment_end)))
            ELSE text0
    IN IF line = "" THEN <<>>
       ELSE IF ~is_file_path_line /\ StartsWith(line, comment_start) /\ metadata_text # ""
       THEN <<create_header_line(comment_start, comment_end, metadata_text)>>
       ELSE <<>>

RECURSIVE MergeMetadata_reversed(_, _, _)
\* a faulty loop of _merge_headers: the metadata lines come out last first
MergeMetadata_reversed(existing_lines, comment_start, comment_end) ==
    IF existing_lines = <<>> THEN <<>>
    ELSE MergeMetadata_reversed(Tail(existing_lines), comment_start, comment_end)
            \o MergeLine(existing_lines[1], comment_start, comment_end)

RECURSIVE MergeMetadata(_, _, _)
MergeMetadata(existing_lines, comment_start, comment_end) ==
    IF existing_lines = <<>> THEN <<>>
    ELSE MergeLine(existing_lines[1], comment_start, comment_end)
            \o MergeMetadata(Tail(existing_lines), comment_start, comment_end)

\* the return of _merge_headers: the standard header, then the metadata lines
MergedBlock(standard_header, metadata_lines) ==
    IF metadata_lines # <<>>
    THEN standard_header \o "\n" \o Join(metadata_lines, "\n")
    ELSE standard_header

merge_headers(existing_header, new_header, comment_start, comment_end) ==
    LET path0 == Strip(Replace(new_header, "File:", ""))
        file_path ==
            IF comment_end # "" /\ EndsWith(path0, comment_end)
            THEN Strip(Upto(path0, Len(path0) - Len(comment_end)))
            ELSE path0
        existing_lines == Split(Strip(existing_header), "\n")
        standard_header ==
            comment_start \o " File: " \o file_path
                \o (IF comment_end # "" THEN " " \o comment_end ELSE "")
    IN MergedBlock(standard_header, MergeMetadata(existing_lines, comment_start, comment_end))

-----------------------------------------------------------------------------
(* Content assembler.                                                      *)

RECURSIVE strip_leading_blank_lines(_)
strip_leading_blank_lines(lines) ==
    IF lines = <<>> THEN <<>>
    ELSE IF Strip(lines[1]) # "" THEN lines
    ELSE strip_leading_blank_lines(Tail(lines))

\* the assembler with no newline appended at the end
EnsureNewline_never(result) == result

\* if not result.endswith("\n"): result += "\n"
EnsureNewline(result) == IF ~EndsWith(result, "\n") THEN result \o "\n" ELSE result

\* the header block, a blank line and the body; the header block alone when
\* the body is empty
HeaderAndBody(header_block, body_lines) ==
    IF body_lines # <<>> THEN header_block \o "\n\n" \o Join(body_lines, "\n")
    ELSE header_block \o "\n"

compose_with_header_block(header_block, body_lines) ==
    EnsureNewline(HeaderAndBody(RStripNL(header_block), strip_leading_blank_lines(body_lines)))

-----------------------------------------------------------------------------
(* Structural preamble: shebang and XML-like declarations.                 *)

\* a faulty _process_shebang_file: the shebang is handled as a body line
process_shebang_as_plain(lines, header_block, comment_start) ==
    compose_with_header_block(header_block, remove_existing_header(lines, comment_start, 0))

process_shebang_file(lines, header_block, comment_start) ==
    LET shebang == lines[1]
        remaining_lines == remove_existing_header(Tail(lines), comment_start, 0)
        rest == compose_with_header_block(header_block, remaining_lines)
    IN EnsureNewline(shebang \o "\n" \o rest)

IsDeclaration(line) ==
    LET line_stripped == Lower(Strip(line)) IN
    \/ \E p \in {"<?xml", "<!doctype", "<?php", "<%", "<%=", "<%@"} :
          StartsWith(line_stripped, p)
    \/ StartsWith(line_stripped, "<script setup")
    \/ StartsWith(line_stripped, "<template")

RECURSIVE ContentStart(_, _)
\* content_start of _process_xml_like_file: the length of the leading run of
\* declaration lines, counted from index i
ContentStart(lines, i) ==
    IF i < Len(lines) /\ IsDeclaration(lines[i + 1]) THEN ContentStart(lines, i + 1) ELSE i

\* _process_xml_like_file once content_start is known
AfterDeclarations(lines, header_block, comment_start, content_start) ==
    LET declarations == Take(lines, content_start)
        remaining_lines ==
            remove_existing_header(Drop(lines, content_start), comment_start, 0)
        composed == compose_with_header_block(header_block, remaining_lines)
    IN IF declarations # <<>>
       THEN EnsureNewline(Join(declarations, "\n") \o "\n" \o composed)
       ELSE composed

\* a faulty _process_xml_like_file: declarations are handled as body lines
process_xml_as_plain(lines, header_block, comment_start) ==
    compose_with_header_block(header_block, remove_existing_header(lines, comment_start, 0))

process_xml_like_file(lines, header_block, comment_start) ==
    IF lines = <<>> THEN process_empty_file(header_block)
    ELSE AfterDeclarations(lines, header_block, comment_start, ContentStart(lines, 0))

process_web_framework_file(name, lines, header_block, comment_start) ==
    LET suffix == Lower(Suffix(name))
        has_template ==
            \E k \in 1..Min({10, Len(lines)}) : Contains(Lower(lines[k]), "<template")
        has_script_setup ==
            \E k \in 1..Min({15, Len(lines)}) : Contains(Lower(lines[k]), "<script setup")
    IN IF suffix \in {".vue", ".svelte"} /\ (has_template \/ has_script_setup)
       THEN process_xml_like_file(lines, header_block, comment_start)
       ELSE compose_with_header_block(header_block,
                                      remove_existing_header(lines, comment_start, 0))

-----------------------------------------------------------------------------
(* Per-file orchestration.                                                 *)

MetadataKeywords == {"author:", "version:", "copyright:", "created:", "description:"}

RECURSIVE CollectFrom(_, _, _, _, _)
\* the loop of _collect_metadata_lines from index i on
CollectFrom(lines, comment_start, i, metadata_lines, in_metadata_block) ==
    IF i >= Min({10, Len(lines)}) THEN metadata_lines
    ELSE LET line == Strip(lines[i + 1]) IN
         IF line = ""
         THEN CollectFrom(lines, comment_start, i + 1, metadata_lines, in_metadata_block)
         ELSE IF /\ StartsWith(line, comment_start)
                 /\ LET lowered == Lower(line)
                    IN \E keyword \in MetadataKeywords : Contains(lowered, keyword)
         THEN CollectFrom(lines, comment_start, i + 1, Append(metadata_lines, line), TRUE)
         ELSE IF in_metadata_block /\ StartsWith(line, comment_start)
         THEN CollectFrom(lines, comment_start, i + 1, Append(metadata_lines, line), TRUE)
         ELSE IF in_metadata_block THEN metadata_lines
         ELSE CollectFrom(lines, comment_start, i + 1, metadata_lines, in_metadata_block)

collect_metadata_lines(lines, comment_start) ==
    CollectFrom(lines, comment_start, 0, <<>>, FALSE)

RECURSIVE CaptureHeader(_, _, _, _)
\* the "capture up to 10 header lines" loop of _determine_new_content
CaptureHeader(lines, comment_start, i, header_lines) ==
    IF i >= Min({10, Len(lines)}) THEN header_lines
    ELSE LET line == Strip(lines[i + 1]) IN
         IF line # "" /\ StartsWith(line, comment_start)
         THEN CaptureHeader(lines, comment_start, i + 1, Append(header_lines, lines[i + 1]))
         ELSE IF line = "" THEN CaptureHeader(lines, comment_start, i + 1, header_lines)
         ELSE header_lines

\* the header text _determine_new_content hands to _merge_headers: the first
\* line of the header block without its comment markers
HeaderContent(first_header_line, comment_start, comment_end) ==
    LET stripped_line == Strip(From(first_header_line, Len(comment_start)))
    IN IF StartsWith(first_header_line, comment_start)
       THEN (IF comment_end # "" /\ EndsWith(stripped_line, comment_end)
             THEN Strip(Upto(stripped_line, Len(stripped_line) - Len(comment_end)))
             ELSE stripped_line)
       ELSE first_header_line

\* the branch of _determine_new_content taken when a header indicator is
\* found: <<new content>> when the pattern sniffer recognises the header, <<>>
\* (None) when it does not
RewriteExistingHeader(lines, existing_pattern, comment_start, comment_end, header_block) ==
    IF existing_pattern = <<>> THEN <<>>
    ELSE LET detected_start == existing_pattern[1]
             existing_header == Join(CaptureHeader(lines, comment_start, 0, <<>>), "\n")
             header_block_lines == Split(header_block, "\n")
             is_multi_line_template == Len(header_block_lines) > 1
             header_content == HeaderContent(header_block_lines[1], comment_start, comment_end)
             merged_header ==
                 merge_headers(existing_header, header_content, comment_start, comment_end)
         IN <<compose_with_header_block(
                 IF is_multi_line_template THEN header_block ELSE merged_header,
                 remove_existing_header(lines, detected_start, 0))>>

\* the last branches of _determine_new_content, for a file with no header:
\* metadata lines found near the top move under the new header
PlaceHeader(text, lines, metadata_lines, header_block) ==
    IF metadata_lines # <<>>
    THEN LET combined_header == header_block \o "\n" \o Join(metadata_lines, "\n")
             remaining_lines ==
                 SelectSeq(lines,
                           LAMBDA l : \A k \in 1..Len(metadata_lines) :
                                         Strip(l) # Strip(metadata_lines[k]))
         IN <<compose_with_header_block(combined_header, remaining_lines)>>
    ELSE IF Strip(text) # ""
    THEN <<compose_with_header_block(header_block, SplitLines(text))>>
    ELSE <<process_empty_file(header_block)>>

\* _determine_new_content over the lines of the file
DetermineFromLines(name, text, lines, comment_start, comment_end, header_block) ==
    IF lines = <<>> THEN <<process_empty_file(header_block)>>
    ELSE IF StartsWith(lines[1], "#!")
    THEN <<process_shebang_file(lines, header_block, comment_start)>>
    ELSE IF is_special_xml_file(name)
    THEN <<process_xml_like_file(lines, header_block, comment_start)>>
    ELSE IF Lower(Suffix(name)) \in {".vue", ".svelte", ".astro"}
    THEN <<process_web_framework_file(name, lines, header_block, comment_start)>>
    ELSE IF has_existing_header(lines, comment_start, 0)
    THEN RewriteExistingHeader(lines, detect_header_pattern(text), comment_start,
                               comment_end, header_block)
    ELSE PlaceHeader(text, lines, collect_metadata_lines(lines, comment_start), header_block)

\* <<new content>>, or <<>> for None
determine_new_content(name, text, comment_start, comment_end, header_block) ==
    DetermineFromLines(name, text, SplitLines(text), comment_start, comment_end, header_block)

\* the end of process_file: the file is written when the new content differs
\* process_file with a write error that is not caught: the status stays
\* 'modified'
WriteIfChanged_error_escapes(name, text, new_content, dry_run) ==
    IF new_content # <<>> /\ new_content[1] # text
    THEN IF dry_run \/ <<name, "write">> \in faults
         THEN [status |-> "modified", content |-> text]
         ELSE [status |-> "modified", content |-> new_content[1]]
    ELSE [status |-> "unchanged", content |-> text]

\* process_file that writes in a dry run too
WriteIfChanged_dry_writes(name, text, new_content, dry_run) ==
    IF new_content # <<>> /\ new_content[1] # text
    THEN IF <<name, "write">> \in faults THEN [status |-> "skipped", content |-> text]
         ELSE [status |-> "modified", content |-> new_content[1]]
    ELSE [status |-> "unchanged", content |-> text]

WriteIfChanged(name, text, new_content, dry_run) ==
    IF new_content # <<>> /\ new_content[1] # text
    THEN IF dry_run THEN [status |-> "modified", content |-> text]
         ELSE IF <<name, "write">> \in faults THEN [status |-> "skipped", content |-> text]
         ELSE [status |-> "modified", content |-> new_content[1]]
    ELSE [status |-> "unchanged", content |-> text]

\* process_file once the dialect is known
AnnotateWith(name, text, comment_style, dry_run) ==
    IF comment_style = <<>> THEN [status |-> "skipped", content |-> text]
    ELSE IF <<name, "decode">> \in faults THEN [status |-> "skipped", content |-> text]
    ELSE WriteIfChanged(name, text,
                        determine_new_content(name, text, comment_style[1],
                                              comment_style[2], create_header(name, text)),
                        dry_run)

\* the status process_file returns and the text the file holds afterwards
process_file(name, text, dry_run) ==
    IF should_skip_path(name, text) THEN [status |-> "skipped", content |-> text]
    ELSE AnnotateWith(name, text, get_comment_style(name, text), dry_run)

-----------------------------------------------------------------------------
(* The files and inputs of the model.                                      *)

Files == {"a.py", "a.css", "a.html", "a.lisp", "a.f"}

\* a one-line comment of the file's dialect
CommentLine(name, text) ==
    FormatHeader(get_comment_style(name, ""), <<text>>)

\* lines a file can start with: nothing, a shebang, declarations
Preambles(name) ==
    {<<>>, <<"#!/bin/sh">>}
    \cup (IF is_special_xml_file(name)
          THEN {<<"<?xml?>">>, <<"<?xml?>", "<!DOCTYPE html>">>} ELSE {})

\* the texts of the comment lines a file can hold: a foreign header, the
\* file's own header, metadata, a plain comment
CommentTexts(name) == {"File: old", "File: " \o name, "Author: J", "c"}

\* lines of the rest of a file: blank, code, comment lines
Pool(name) ==
    {"", "  ", "x"}
    \cup {CommentLine(name, t) : t \in CommentTexts(name)}
    \cup (IF is_special_xml_file(name) THEN {"<?xml?>"} ELSE {})

SeqsUpTo(S, n) == UNION {[1..k -> S] : k \in 0..n}

\* the initial texts of a file, with and without a newline at the end
Inputs(name) ==
    {Join(pre \o ls, "\n") \o nl :
        pre \in Preambles(name), ls \in SeqsUpTo(Pool(name), MaxLines), nl \in {"", "\n"}}

-----------------------------------------------------------------------------
(* Repeated annotation of one file.                                        *)

Init ==
    /\ file \in Files
    /\ content \in Inputs(file)
    /\ orig = content
    /\ prev = content
    /\ status = "none"
    /\ passes = 0
    /\ fn = "none"
    /\ arg = <<>>
    /\ res = <<>>
    /\ config = NoConfig
    /\ faults = {}
    /\ tree = <<>>
    /\ backup = <<>>

\* the file after a call and the status the call returned
Written(result) == content' = result.content /\ status' = result.status

ProcessFile ==
    /\ fn = "none"
    /\ passes < MaxPasses
    /\ Written(process_file(file, content, FALSE))
    /\ prev' = content
    /\ passes' = passes + 1
    /\ UNCHANGED <<file, orig, fn, arg, res, config, faults, tree, backup>>

Next == ProcessFile

Spec == Init /\ [][Next]_vars

-----------------------------------------------------------------------------
(* One call of the content assembler.                                      *)

\* header blocks the callers hand over: one line, one line and metadata, a
\* block dialect, a block that ends with a newline
HeaderBlocks ==
    {"# File: a.py", "# File: a.py\n# Author: J", "/* File: a.css */", "# File: a.py\n"}

BodyPool == {"", "  ", "x", "# c"}

InitCompose ==
    /\ fn = "compose"
    /\ arg \in {<<hb, body>> : hb \in HeaderBlocks, body \in SeqsUpTo(BodyPool, MaxBody)}
    /\ res = <<>>
    /\ file = ""
    /\ content = ""
    /\ orig = ""
    /\ prev = ""
    /\ status = "none"
    /\ passes = 0
    /\ config = NoConfig
    /\ faults = {}
    /\ tree = <<>>
    /\ backup = <<>>

ComposeCall ==
    /\ fn = "compose"
    /\ res = <<>>
    /\ res' = <<compose_with_header_block(arg[1], arg[2])>>
    /\ UNCHANGED <<file, content, orig, prev, status, passes, fn, arg, config, faults, tree, backup>>

NextCompose == ComposeCall

SpecCompose == InitCompose /\ [][NextCompose]_vars

-----------------------------------------------------------------------------
(* One call of the header merger.                                          *)

MergeDialects == {<<"#", "">>, <<"/*", "*/">>}

\* lines of an existing header: two path lines, two metadata lines, a blank
\* line
HeaderPool(d) ==
    {create_header_line(d[1], d[2], t) :
        t \in {"File: old.py", "Source: old.py", "Author: John Doe", "Version: 1.0"}}
    \cup {""}

InitMerge ==
    /\ fn = "merge"
    /\ arg \in UNION {{<<Join(ls, "\n"), "File: new.py", d[1], d[2]>> :
                          ls \in SeqsUpTo(HeaderPool(d), MaxHeader)} : d \in MergeDialects}
    /\ res = <<>>
    /\ file = ""
    /\ content = ""
    /\ orig = ""
    /\ prev = ""
    /\ status = "none"
    /\ passes = 0
    /\ config = NoConfig
    /\ faults = {}
    /\ tree = <<>>
    /\ backup = <<>>

MergeCall ==
    /\ fn = "merge"
    /\ res = <<>>
    /\ res' = <<merge_headers(arg[1], arg[2], arg[3], arg[4])>>
    /\ UNCHANGED <<file, content, orig, prev, status, passes, fn, arg, config, faults, tree, backup>>

NextMerge == MergeCall

SpecMerge == InitMerge /\ [][NextMerge]_vars

-----------------------------------------------------------------------------
(* Annotation of files the tool may have to leave alone: unsupported        *)
(* types, excluded names, binary content.                                   *)

\* names with no dialect, names with a dialect, and excluded names (three of
\* them in the special table, one with a binary extension)
SkipFiles ==
    {"a.dat", "noext", "a.py", "package.json", "requirements.txt", ".editorconfig",
     "a.md", "a.json", "LICENSE", "a.png"}

\* texts: empty, plain data, a first line that starts with each marker of the
\* last-resort sniff, a blank first line, a shebang, an old header, a NUL byte
SkipInputs ==
    {"", "x\n", "1 2\n# c\n", "# c\nx\n", "  # c\n", "// c\n", "/* c */\n", "<!-- c -->\n",
     "\n# c\n", "#!/bin/sh\nx\n", "# File: old\nx\n", "x" \o NUL \o "\n", "# c" \o NUL \o "\n"}

\* no configuration, and one that ignores a Python file
SkipConfigs ==
    {NoConfig, [ignored_files |-> {"a.py"}, ignored_directories |-> {}]}

InitSkip ==
    /\ file \in SkipFiles
    /\ content \in SkipInputs
    /\ orig = content
    /\ prev = content
    /\ status = "none"
    /\ passes = 0
    /\ fn = "none"
    /\ arg = <<>>
    /\ res = <<>>
    /\ config \in SkipConfigs
    /\ faults = {}
    /\ tree = <<>>
    /\ backup = <<>>

SpecSkip == InitSkip /\ [][Next]_vars

-----------------------------------------------------------------------------
(* A project tree: the directory walk, the backup file, the revert.         *)

BACKUP_FILENAME == ".annot8_backup.json"

\* the directories of the tree by relative path; "" is the project root
Directories == {"", "sub", "sub/build", "node_modules", "gen"}

\* the paths a tree can hold, in the order a directory lists them
TreeOrder ==
    <<"a.py", "b.dat", BACKUP_FILENAME, "sub", "sub/c.py", "sub/build", "sub/build/f.py",
      "node_modules", "node_modules/d.py", "gen", "gen/e.py">>

\* Path.parent, relative to the project root
Parent(path) ==
    LET i == RFind(path, "/") IN IF i = -1 THEN "" ELSE Upto(path, i)

\* the entry is there: a directory, a file of the tree, the backup file
EntryExists(path, files) ==
    \/ path \in Directories
    \/ path \in DOMAIN files
    \/ (path = BACKUP_FILENAME /\ backup # <<>>)

\* directory.iterdir()
iterdir(directory, files) ==
    SelectSeq(TreeOrder, LAMBDA p : Parent(p) = directory /\ EntryExists(p, files))

\* the text of a file; the text of the backup file is never read
TextOf(path, files) == IF path \in DOMAIN files THEN files[path] ELSE ""

\* backup_content[relative path] = the text before the write, for a file
\* the run modifies when it is no dry run
RecordBackup(backup_content, path, text, result, dry_run) ==
    IF result.status = "modified" /\ ~dry_run
    THEN [p \in DOMAIN backup_content \cup {path} |->
             IF p = path THEN text ELSE backup_content[p]]
    ELSE backup_content

\* walk_directory counting into one wrong counter
AddResult_as_unchanged(item, text, result, dry_run, acc) ==
    [stats |-> [acc.stats EXCEPT !["unchanged"] = @ + 1],
     files |-> IF item \in DOMAIN acc.files
               THEN [acc.files EXCEPT ![item] = result.content] ELSE acc.files,
     backup_content |-> RecordBackup(acc.backup_content, item, text, result, dry_run),
     calls |-> Append(acc.calls, <<item, result.status>>)]

\* the file after process_file, one more in the counter of its status, the
\* backup record
AddResult(item, text, result, dry_run, acc) ==
    [stats |-> [acc.stats EXCEPT ![result.status] = @ + 1],
     files |-> IF item \in DOMAIN acc.files
               THEN [acc.files EXCEPT ![item] = result.content] ELSE acc.files,
     backup_content |-> RecordBackup(acc.backup_content, item, text, result, dry_run),
     calls |-> Append(acc.calls, <<item, result.status>>)]

\* the else branch of the loop of walk_directory: a non-directory entry
WalkFile(item, text, dry_run, acc) ==
    AddResult(item, text, process_file(item, text, dry_run), dry_run, acc)

RECURSIVE walk_directory(_, _, _)

\* the body of the loop of walk_directory
WalkItem(item, dry_run, acc) ==
    IF item \in Directories
    THEN IF BaseName(item) \notin IGNORED_DIRS \cup config.ignored_directories
         THEN walk_directory(item, dry_run, acc)
         ELSE acc
    ELSE WalkFile(item, TextOf(item, acc.files), dry_run, acc)

RECURSIVE WalkItems(_, _, _)
\* the loop of walk_directory
WalkItems(items, dry_run, acc) ==
    IF items = <<>> THEN acc
    ELSE WalkItems(Tail(items), dry_run, WalkItem(Head(items), dry_run, acc))

\* The counters of the subtree are added to acc.stats, the files written are
\* in acc.files; a directory that cannot be listed adds nothing.
walk_directory(directory, dry_run, acc) ==
    IF <<directory, "listdir">> \in faults THEN acc
    ELSE WalkItems(iterdir(directory, acc.files), dry_run, acc)

\* before a run: no counter, no backup record, no call
StartOfRun(files) ==
    [stats |-> [modified |-> 0, skipped |-> 0, unchanged |-> 0],
     files |-> files, backup_content |-> <<>>, calls |-> <<>>]

\* the backup file after save_backup
save_backup(old, file_backups) ==
    IF DOMAIN file_backups = {} THEN old ELSE <<file_backups>>

\* None as <<>>, a dictionary d as <<d>>
load_backup(backup_file) == backup_file

\* the backup file after _handle_annotation
SavedBackup(old, backup_content, dry_run) ==
    IF ~dry_run /\ DOMAIN backup_content # {} THEN save_backup(old, backup_content) ELSE old

\* revert_files that writes a file that is gone, too
RevertEntry_recreates(path, original_content, dry_run, acc) ==
    IF dry_run THEN [acc EXCEPT !.stats.reverted = @ + 1]
    ELSE IF <<path, "write">> \in faults THEN [acc EXCEPT !.stats.errors = @ + 1]
    ELSE [stats |-> [acc.stats EXCEPT !.reverted = @ + 1],
          files |-> [p \in DOMAIN acc.files \cup {path} |->
                        IF p = path THEN original_content ELSE acc.files[p]]]

\* the body of the loop of revert_files
RevertEntry(path, original_content, dry_run, acc) ==
    IF path \notin DOMAIN acc.files
    THEN [acc EXCEPT !.stats.missing = @ + 1]
    ELSE IF dry_run THEN [acc EXCEPT !.stats.reverted = @ + 1]
    ELSE IF <<path, "write">> \in faults THEN [acc EXCEPT !.stats.errors = @ + 1]
    ELSE [acc EXCEPT !.stats.reverted = @ + 1, !.files[path] = original_content]

RECURSIVE RevertEntries(_, _, _, _)
\* the loop of revert_files
RevertEntries(paths, file_backups, dry_run, acc) ==
    IF paths = <<>> THEN acc
    ELSE RevertEntries(Tail(paths), file_backups, dry_run,
                       RevertEntry(Head(paths), file_backups[Head(paths)], dry_run, acc))

\* revert_files that previews only
revert_files_preview(files, file_backups, dry_run) ==
    IF file_backups = <<>> \/ DOMAIN file_backups[1] = {}
    THEN [stats |-> [reverted |-> 0, missing |-> 0, errors |-> 0], files |-> files]
    ELSE RevertEntries(SelectSeq(TreeOrder, LAMBDA p : p \in DOMAIN file_backups[1]),
                       file_backups[1], TRUE,
                       [stats |-> [reverted |-> 0, missing |-> 0, errors |-> 0],
                        files |-> files])

\* the counters revert_files returns and the files afterwards
revert_files(files, file_backups, dry_run) ==
    IF file_backups = <<>> \/ DOMAIN file_backups[1] = {}
    THEN [stats |-> [reverted |-> 0, missing |-> 0, errors |-> 0], files |-> files]
    ELSE RevertEntries(SelectSeq(TreeOrder, LAMBDA p : p \in DOMAIN file_backups[1]),
                       file_backups[1], dry_run,
                       [stats |-> [reverted |-> 0, missing |-> 0, errors |-> 0],
                        files |-> files])

-----------------------------------------------------------------------------
(* Operations on a project tree.                                            *)

TreeOps == {"tree", "annotate", "revert", "edit", "delete"}

\* what a run leaves: the files, the backup file, the counters and calls
Annotated(dry_run, acc) ==
    /\ tree' = acc.files
    /\ backup' = SavedBackup(backup, acc.backup_content, dry_run)
    /\ res' = [stats |-> acc.stats, calls |-> acc.calls, backup_content |-> acc.backup_content]
    /\ arg' = <<dry_run>>
    /\ prev' = IF dry_run THEN prev ELSE <<tree>>

\* _handle_annotation: the walk from the project root, then the backup
Annotate ==
    /\ fn \in TreeOps
    /\ passes < MaxPasses
    /\ \E dry_run \in BOOLEAN : Annotated(dry_run, walk_directory("", dry_run, StartOfRun(tree)))
    /\ fn' = "annotate"
    /\ passes' = passes + 1
    /\ UNCHANGED <<file, content, orig, status, config, faults>>

Reverted(dry_run, r) ==
    /\ tree' = r.files
    /\ res' = [stats |-> r.stats]
    /\ arg' = <<dry_run>>

\* _handle_revert
Revert ==
    /\ fn \in TreeOps
    /\ passes < MaxPasses
    /\ \E dry_run \in BOOLEAN : Reverted(dry_run, revert_files(tree, load_backup(backup), dry_run))
    /\ fn' = "revert"
    /\ passes' = passes + 1
    /\ UNCHANGED <<file, content, orig, prev, status, config, faults, backup>>

\* the user rewrites a file between two operations
UserEdit ==
    /\ fn \in TreeOps
    /\ passes < MaxPasses
    /\ \E p \in DOMAIN tree : \E t \in {"y\n", "# File: " \o p \o "\n\ny\n"} :
          /\ t # tree[p]
          /\ tree' = [tree EXCEPT ![p] = t]
          /\ arg' = <<p>>
    /\ fn' = "edit"
    /\ res' = <<>>
    /\ passes' = passes + 1
    /\ UNCHANGED <<file, content, orig, prev, status, config, faults, backup>>

\* the user deletes a file between two operations
UserDelete ==
    /\ fn \in TreeOps
    /\ passes < MaxPasses
    /\ \E p \in DOMAIN tree :
          /\ tree' = [q \in DOMAIN tree \ {p} |-> tree[q]]
          /\ arg' = <<p>>
    /\ fn' = "delete"
    /\ res' = <<>>
    /\ passes' = passes + 1
    /\ UNCHANGED <<file, content, orig, prev, status, config, faults, backup>>

-----------------------------------------------------------------------------
(* Runs over one tree, with what the file system may refuse.                *)

\* a file with no header, and the file once annotated
Plain == "x\n"
AnnotatedText(path) == "# File: " \o path \o "\n\nx\n"

WalkFiles == {"a.py", "b.dat", "sub/c.py", "sub/build/f.py", "node_modules/d.py", "gen/e.py"}

\* a.py and sub/c.py with or without their header, the other files without
WalkTrees ==
    {[p \in WalkFiles |-> IF p \in annotated THEN AnnotatedText(p) ELSE Plain] :
        annotated \in SUBSET {"a.py", "sub/c.py"}}

\* nothing refused, or one refusal: a file that cannot be opened, decoded or
\* written, a directory that cannot be listed
WalkFaults ==
    {{}} \cup {{f} : f \in {<<"a.py", "read">>, <<"a.py", "decode">>, <<"a.py", "write">>,
                            <<"sub/c.py", "write">>, <<"sub", "listdir">>,
                            <<"gen", "listdir">>}}

WalkConfigs == {NoConfig, [ignored_files |-> {}, ignored_directories |-> {"gen"}]}

InitTree(trees, refusals, configs) ==
    /\ tree \in trees
    /\ orig = tree
    /\ faults \in refusals
    /\ config \in configs
    /\ backup = <<>>
    /\ prev = <<>>
    /\ fn = "tree"
    /\ arg = <<>>
    /\ res = <<>>
    /\ passes = 0
    /\ file = ""
    /\ content = ""
    /\ status = "none"

InitWalk == InitTree(WalkTrees, WalkFaults, WalkConfigs)

NextWalk == Annotate

SpecWalk == InitWalk /\ [][NextWalk]_vars

-----------------------------------------------------------------------------
(* Runs, reverts and what the user does in between, over two files.         *)

RevertFiles == {"a.py", "sub/c.py"}

RevertTrees ==
    {[p \in RevertFiles |-> IF p \in annotated THEN AnnotatedText(p) ELSE Plain] :
        annotated \in SUBSET RevertFiles}

RevertFaults == {{}, {<<"a.py", "write">>}}

InitRevert == InitTree(RevertTrees, RevertFaults, {NoConfig})

NextRevert == Annotate \/ Revert \/ UserEdit \/ UserDelete

SpecRevert == InitRevert /\ [][NextRevert]_vars

-----------------------------------------------------------------------------
(* One call of the dialect lookup.                                          *)

\* <<file name, start, end>> as the tests of the web template formats and of
\* the additional languages assert them
TestTable ==
    {<<"test.hbs", "<!--", "-->">>, <<"test.handlebars", "<!--", "-->">>,
     <<"test.ejs", "<!--", "-->">>, <<"test.pug", "//", "">>, <<"test.jade", "//", "">>,
     <<"test.mustache", "<!--", "-->">>, <<"test.mst", "<!--", "-->">>,
     <<"test.twig", "{#", "#}">>, <<"test.jinja", "{#", "#}">>,
     <<"test.jinja2", "{#", "#}">>, <<"test.mdx", "<!--", "-->">>,
     <<"test.m", "//", "">>, <<"test.mm", "//", "">>, <<"test.groovy", "//", "">>,
     <<"test.clj", ";;", "">>, <<"test.fs", "//", "">>, <<"test.nim", "#", "">>,
     <<"test.cr", "#", "">>, <<"test.tf", "#", "">>, <<"test.ml", "(*", "*)">>,
     <<"test.vhd", "--", "">>, <<"test.adb", "--", "">>, <<"test.asm", ";", "">>,
     <<"test.vb", "'", "">>, <<"test.v", "//", "">>, <<"test.f90", "!", "">>,
     <<"test.cob", "*", "">>, <<"test.hcl", "#", "">>, <<"test.nix", "#", "">>,
     <<"test.pas", "//", "">>}

\* the files of the tests, and files of the exact-filename table
StyleFiles ==
    {e[1] : e \in TestTable} \cup {"package.json", "CMakeLists.txt", "setup.py", "Makefile"}

\* texts with and without a comment marker on the first line
StyleInputs ==
    {"", "x\n", "# c\n", "// c\n", "<div>{{title}}</div>", "# My Article\n\n<Component />"}

InitStyle ==
    /\ file \in StyleFiles
    /\ content \in StyleInputs
    /\ fn = "style"
    /\ arg = <<>>
    /\ res = <<>>
    /\ orig = content
    /\ prev = content
    /\ status = "none"
    /\ passes = 0
    /\ config = NoConfig
    /\ faults = {}
    /\ tree = <<>>
    /\ backup = <<>>

StyleCall ==
    /\ fn = "style"
    /\ res = <<>>
    /\ res' = <<get_comment_style(file, content)>>
    /\ UNCHANGED <<file, content, orig, prev, status, passes, fn, arg, config, faults, tree, backup>>

NextStyle == StyleCall

SpecStyle == InitStyle /\ [][NextStyle]_vars

-----------------------------------------------------------------------------
(* Annotation of files that end with or without a newline.                  *)

NewlineFiles == {"empty.py", "a.py", "a.css", "a.html", "a.lisp"}

\* empty, one body line, two body lines, a shebang alone and with a body
\* line; with and without a newline at the end
NewlineInputs ==
    {"", "\n", "x", "x\n", "x\ny", "x\ny\n", "#!/bin/sh", "#!/bin/sh\n",
     "#!/bin/sh\nx", "#!/bin/sh\nx\n"}

InitNewline ==
    /\ file \in NewlineFiles
    /\ content \in NewlineInputs
    /\ orig = content
    /\ prev = content
    /\ status = "none"
    /\ passes = 0
    /\ fn = "none"
    /\ arg = <<>>
    /\ res = <<>>
    /\ config = NoConfig
    /\ faults = {}
    /\ tree = <<>>
    /\ backup = <<>>

SpecNewline == InitNewline /\ [][Next]_vars

-----------------------------------------------------------------------------
(* One call of the header check.                                            *)

\* path lines in the spellings of the check and in others, a metadata line, a
\* blank line and a code line
IndicatorPool ==
    {"# File: a", "#File: a", "# file: a", "#Filename: a", "# FILE: a",
     " # @file a", "// Path: a", "# Author: x", "", "x"}

IndicatorStarts == {"#", "//"}

InitIndicator ==
    /\ fn = "has_header"
    /\ arg \in {<<ls, s, i>> : ls \in SeqsUpTo(IndicatorPool, MaxHeader),
                               s \in IndicatorStarts, i \in 0 .. 2}
    /\ res = <<>>
    /\ file = ""
    /\ content = ""
    /\ orig = ""
    /\ prev = ""
    /\ status = "none"
    /\ passes = 0
    /\ config = NoConfig
    /\ faults = {}
    /\ tree = <<>>
    /\ backup = <<>>

HasHeaderCall ==
    /\ fn = "has_header"
    /\ res = <<>>
    /\ res' = <<has_existing_header(arg[1], arg[2], arg[3])>>
    /\ UNCHANGED <<file, content, orig, prev, status, passes, fn, arg, config, faults, tree, backup>>

NextIndicator == HasHeaderCall

SpecIndicator == InitIndicator /\ [][NextIndicator]_vars

-----------------------------------------------------------------------------
(* Annotation with a configured header.                                     *)

TemplateFiles == {"a.py", "a.css"}

\* header configurations: the defaults, a configured author, a date, a
\* one-line template and a template of two lines
HeaderConfigs ==
    {NoHeader,
     [NoHeader EXCEPT !.author = "Me"],
     [NoHeader EXCEPT !.include_date = TRUE],
     [NoHeader EXCEPT !.template = "File: {file_path}"],
     [NoHeader EXCEPT !.template = "File: {file_path}\nAuthor: {author|Unknown}"]}

TemplateConfigs ==
    {NoConfig}
    \cup {[ignored_files |-> {}, ignored_directories |-> {}, header |-> h] :
             h \in HeaderConfigs}

\* lines of a file: a foreign header line, two metadata lines, code, blank
TemplatePool(name) ==
    {CommentLine(name, t) : t \in {"File: old", "Author: J", "License: MIT"}} \cup {"x", ""}

TemplateInputs(name) ==
    {Join(ls, "\n") : ls \in SeqsUpTo(TemplatePool(name), MaxHeader)}

InitTemplate ==
    /\ file \in TemplateFiles
    /\ content \in TemplateInputs(file)
    /\ config \in TemplateConfigs
    /\ orig = content
    /\ prev = content
    /\ status = "none"
    /\ passes = 0
    /\ fn = "none"
    /\ arg = <<>>
    /\ res = <<>>
    /\ faults = {}
    /\ tree = <<>>
    /\ backup = <<>>

SpecTemplate == InitTemplate /\ [][Next]_vars

-----------------------------------------------------------------------------
(* One call of the template renderer.                                       *)

\* template lines: placeholders with and without default, bound and unbound,
\* with and without spaces around the name; plain text; blank lines
RenderPool ==
    {"File: {file_path}", "{ file_name }", "By {author|Unknown}", "{ author | nobody }",
     "v{version}", "text {}", "", "  "}

RenderFiles == {"a.py", "sub/c.py"}

RenderHeaders ==
    {NoHeader, [NoHeader EXCEPT !.author = "Me"], [NoHeader EXCEPT !.version = "2"]}

InitRender ==
    /\ fn = "render"
    /\ arg \in {<<Join(ls, "\n"), get_template_variables(f, h), d[1], d[2]>> :
                   ls \in SeqsUpTo(RenderPool, MaxLines), f \in RenderFiles,
                   h \in RenderHeaders, d \in MergeDialects}
    /\ res = <<>>
    /\ file = ""
    /\ content = ""
    /\ orig = ""
    /\ prev = ""
    /\ status = "none"
    /\ passes = 0
    /\ config = NoConfig
    /\ faults = {}
    /\ tree = <<>>
    /\ backup = <<>>

RenderCall ==
    /\ fn = "render"
    /\ res = <<>>
    /\ res' = <<render_template(arg[1], arg[2], arg[3], arg[4])>>
    /\ UNCHANGED <<file, content, orig, prev, status, passes, fn, arg, config, faults, tree, backup>>

NextRender == RenderCall

SpecRender == InitRender /\ [][NextRender]_vars

-----------------------------------------------------------------------------
(* Annotation of files whose header is one comment of several lines.        *)

BlockFiles == {"a.css", "a.html"}

\* the lines of a block comment: its first line with a path label, a
\* continuation line, its closing line; a header on one line, code, blank
BlockPool(name) ==
    LET style == get_comment_style(name, "") IN
    {style[1] \o " File: old", style[1] \o " Source: old", " * Author: J",
     " " \o style[2], CommentLine(name, "File: old"), "x", ""}

BlockInputs(name) ==
    {Join(ls, "\n") : ls \in SeqsUpTo(BlockPool(name), MaxHeader)}

InitBlock ==
    /\ file \in BlockFiles
    /\ content \in BlockInputs(file)
    /\ orig = content
    /\ prev = content
    /\ status = "none"
    /\ passes = 0
    /\ fn = "none"
    /\ arg = <<>>
    /\ res = <<>>
    /\ config = NoConfig
    /\ faults = {}
    /\ tree = <<>>
    /\ backup = <<>>

SpecBlock == InitBlock /\ [][Next]_vars

-----------------------------------------------------------------------------
(* Properties of repeated annotation.                                      *)

\* the header line process_file composes for the file
HeaderLine == create_header(file, content)

\* the comment-start token of the file's dialect
CommentStart == get_comment_style(file, content)[1]

\* the comment-end token of the file's dialect, "" for a line dialect
CommentEnd == get_comment_style(file, content)[2]

\* the number of lines of text equal to line
CountLines(text, line) ==
    Cardinality({k \in 1..Len(Split(text, "\n")) : Split(text, "\n")[k] = line})

\* the lines of text that are neither blank nor comment lines, in order
CodeLines(text) ==
    SelectSeq(SplitLines(text),
              LAMBDA l : Strip(l) # "" /\ ~StartsWith(Strip(l), CommentStart))

\* C1: a second pass right after a first one returns "unchanged" and leaves
\* the file as the first pass wrote it.
C1_SecondPassUnchanged ==
    passes = 2 => (status = "unchanged" /\ content = prev)

\* C2: after one or more passes the file holds exactly one header line
\* "File: <relative path>", and exactly one shebang line if it began with one.
C2_OneHeaderLine ==
    passes >= 1 =>
        /\ CountLines(content, HeaderLine) = 1
        /\ StartsWith(orig, "#!") => CountLines(content, SplitLines(orig)[1]) = 1

\* C3: every line of the input that is neither blank nor a comment line is in
\* the output of a pass, as often and in the same order.
C3_BodyCodeKept ==
    passes = 1 => CodeLines(content) = CodeLines(orig)

\* C4: a file whose first line starts with "#!" keeps that line, unchanged, as
\* its first line, and the composed header line is its second line, whatever
\* the dialect and whether or not the file already had a header.
C4_ShebangFirst ==
    (passes >= 1 /\ StartsWith(orig, "#!")) =>
        /\ Len(SplitLines(content)) >= 2
        /\ SplitLines(content)[1] = SplitLines(orig)[1]
        /\ SplitLines(content)[2] = HeaderLine

\* a shebang file that already had a header has been rewritten
C4_Witness ==
    /\ passes = 1
    /\ status = "modified"
    /\ StartsWith(orig, "#!")
    /\ Contains(orig, "File: old")
    /\ SplitLines(content)[2] = HeaderLine

\* a declaration line as the property of XML-like files words it
DeclarationLike(line) ==
    \E p \in {"<?xml", "<!doctype", "<?php", "<%", "<script setup", "<template"} :
        StartsWith(Lower(Strip(line)), p)

RECURSIVE LeadingDeclarations(_)
\* the length of the leading run of declaration lines
LeadingDeclarations(lines) ==
    IF lines # <<>> /\ DeclarationLike(lines[1])
    THEN 1 + LeadingDeclarations(Tail(lines)) ELSE 0

\* the output starts with the leading declarations of the input, unchanged
\* and in order, and the header line is the very next line
DeclarationsThenHeader ==
    LET k == LeadingDeclarations(SplitLines(orig))
    IN /\ Len(SplitLines(content)) > k
       /\ Take(SplitLines(content), k) = Take(SplitLines(orig), k)
       /\ SplitLines(content)[k + 1] = HeaderLine

\* C5 as stated: in every XML-like file the leading run of declaration lines
\* comes first in the output and the header line is on the very next line.
C5_Original ==
    (passes >= 1 /\ is_special_xml_file(file)) => DeclarationsThenHeader

\* C5, amended: in an XML-like file whose first line is not a shebang, the
\* leading run of declaration lines comes first in the output, unchanged and in
\* order, and the header line is on the very next line, so that no
\* declaration-like line further down is above the header.
C5_DeclarationsFirst ==
    (passes >= 1 /\ is_special_xml_file(file) /\ ~StartsWith(orig, "#!")) =>
        DeclarationsThenHeader

\* an XML-like file with a declaration on top and a declaration-like line
\* after its first content line has been rewritten
C5_Witness ==
    /\ passes = 1
    /\ status = "modified"
    /\ is_special_xml_file(file)
    /\ LeadingDeclarations(SplitLines(orig)) >= 1
    /\ \E k \in 1..Len(SplitLines(orig)) :
          /\ k > LeadingDeclarations(SplitLines(orig)) + 1
          /\ DeclarationLike(SplitLines(orig)[k])

RECURSIVE BlockEnd(_, _)
\* the index of the last line of the header block that starts at line h: the
\* header line and the comment lines right under it
BlockEnd(lines, h) ==
    IF /\ h < Len(lines)
       /\ Strip(lines[h + 1]) # ""
       /\ StartsWith(Strip(lines[h + 1]), CommentStart)
    THEN BlockEnd(lines, h + 1) ELSE h

\* what follows the header block is nothing but blank lines, or one blank line
\* and then a line that is not blank
OneBlankLineAfter(lines, h) ==
    LET rest == Drop(lines, BlockEnd(lines, h))
    IN (\E k \in 1..Len(rest) : Strip(rest[k]) # "") =>
          (Len(rest) >= 2 /\ Strip(rest[1]) = "" /\ Strip(rest[2]) # "")

\* C6: when the file has a body, exactly one blank line lies between the last
\* line of the header block and the first line of the body.
C6_OneBlankLine ==
    passes >= 1 =>
        \A h \in 1..Len(SplitLines(content)) :
            (/\ SplitLines(content)[h] = HeaderLine
             /\ \A g \in 1..(h - 1) : SplitLines(content)[g] # HeaderLine)
            => OneBlankLineAfter(SplitLines(content), h)

\* a shebang line, then nothing but whitespace
ShebangOnly(text) ==
    /\ StartsWith(text, "#!")
    /\ \A k \in 2..Len(SplitLines(text)) : Strip(SplitLines(text)[k]) = ""

DoubledCloser(text, comment_end) ==
    \E i \in 0..(Len(text) - 1) :
        /\ StartsWith(From(text, i), comment_end)
        /\ StartsWith(LStrip(From(text, i + Len(comment_end))), comment_end)

\* C9: in a block-comment dialect, no pass brings about an end marker repeated
\* with only whitespace between, in a file that had none.
C9_NoDoubledCloser ==
    (passes >= 1 /\ CommentEnd # "" /\ ~DoubledCloser(orig, CommentEnd)) =>
        ~DoubledCloser(content, CommentEnd)

\* a block-comment file with a foreign header and a metadata line has been
\* merged into a new header that keeps the metadata line
C9_Witness ==
    /\ passes = 1
    /\ status = "modified"
    /\ CommentEnd # ""
    /\ Contains(orig, "File: old")
    /\ Contains(orig, "Author: J")
    /\ Contains(content, "Author: J " \o CommentEnd)

-----------------------------------------------------------------------------
(* Properties of the content assembler.                                    *)

\* C7: the text the assembler returns ends with exactly one newline.
C7_OneTrailingNewline ==
    (fn = "compose" /\ res # <<>>) =>
        (EndsWith(res[1], "\n") /\ ~EndsWith(res[1], "\n\n"))

-----------------------------------------------------------------------------
(* Properties of the header merger.                                        *)

\* a line of an existing header that carries a path label
PathLine(line) == ContainsAny(Lower(line), {"file:", "filename:", "path:", "@file"})

\* the lines of the existing header that are neither blank nor path lines
MetadataOf(existing_header) ==
    SelectSeq(Split(existing_header, "\n"), LAMBDA l : Strip(l) # "" /\ ~PathLine(l))

-----------------------------------------------------------------------------
(* Files the tool leaves alone.                                             *)

\* neither the special table nor an extension rule names a dialect for the file
NoRegistryRule(name) ==
    /\ SpecialStyles(name) = {}
    /\ Lower(Suffix(name)) \notin {".vue", ".svelte", ".astro", ".ts"}
    /\ MatchingPatterns(Lower(name)) = <<>>

\* the first line, stripped, starts with a comment marker
MarkerFirst(text) ==
    \E mk \in {"//", "#", "/*", "<!--"} : StartsWith(FirstLine(text), mk)

\* C11 as stated: a file that matches no rule of the dialect registry is
\* skipped and keeps its content, whatever the content is.
C11_Original ==
    (passes >= 1 /\ NoRegistryRule(file)) => (status = "skipped" /\ content = prev)

\* C11: a file that matches no rule of the dialect registry and whose first
\* line, stripped, starts with none of the markers //, #, /* and <!-- is
\* skipped and keeps its content byte for byte.
C11_UnsupportedSkipped ==
    (passes >= 1 /\ NoRegistryRule(file) /\ ~MarkerFirst(prev))
        => (status = "skipped" /\ content = prev)

C11_Witness ==
    /\ passes = 1
    /\ file = "a.dat"
    /\ orig = "1 2\n# c\n"
    /\ config = NoConfig
    /\ status = "skipped"
    /\ content = orig

\* the file is excluded by its name, by the configuration or as binary
Excluded(name, text) ==
    \/ \E ext \in {".md", ".markdown", ".json"} : EndsWith(Lower(name), ext)
    \/ name = "LICENSE"
    \/ name \in IGNORED_FILES \cup config.ignored_files
    \/ \E ext \in BINARY_EXTENSIONS : EndsWith(Lower(name), ext)
    \/ \E i \in 1..Len(text) : i <= 1024 /\ SubSeq(text, i, i) = NUL

\* C12: an excluded file (suffix .md, .markdown or .json, name LICENSE, name
\* in IGNORED_FILES or in the configured ignored_files, binary extension, NUL
\* byte in the first 1024 bytes) is skipped and keeps its content byte for
\* byte, also when the special table or an extension rule has a dialect for it.
C12_ExcludedSkipped ==
    (passes >= 1 /\ Excluded(file, prev)) => (status = "skipped" /\ content = prev)

C12_Witness ==
    /\ passes = 1
    /\ file = "requirements.txt"
    /\ SpecialStyles(file) # {}
    /\ orig = "x\n"
    /\ status = "skipped"
    /\ content = orig

\* the file has a header line of its dialect near the top, and the pattern
\* sniffer finds no markers in the text
AmbiguousHeader(name, text) ==
    /\ get_comment_style(name, text) # <<>>
    /\ ~should_skip_path(name, text)
    /\ ~StartsWith(text, "#!")
    /\ ~is_special_xml_file(name)
    /\ has_existing_header(SplitLines(text), get_comment_style(name, text)[1], 0)
    /\ detect_header_pattern(text) = <<>>

\* C13: a file whose header is detected but whose markers the sniffer cannot
\* establish is skipped (status 'skipped', not 'unchanged' or 'modified') and
\* keeps its content.
C13_AmbiguousSkipped ==
    (passes >= 1 /\ AmbiguousHeader(file, prev)) => (status = "skipped" /\ content = prev)

-----------------------------------------------------------------------------
(* Runs over a project tree.                                                *)

\* the directories above a path, the project root left out
DirsAbove(path) == {d \in Directories \ {""} : StartsWith(path, d \o "/")}

\* the path lies under a directory the walk ignores by its name
InsideIgnored(path) ==
    \E d \in DirsAbove(path) : BaseName(d) \in IGNORED_DIRS \cup config.ignored_directories

\* the path lies under a directory that cannot be listed
InsideUnlisted(path) ==
    \E d \in DirsAbove(path) \cup {""} : <<d, "listdir">> \in faults

\* the calls of process_file on a path in a sequence of calls
CallsOn(calls, path) == {i \in DOMAIN calls : calls[i][1] = path}

CallsWith(calls, s) == {i \in DOMAIN calls : calls[i][2] = s}

\* the tree before the latest run
BeforeRun == IF arg[1] THEN tree ELSE prev[1]

\* the run hit an error on the file: it cannot be opened or decoded, or the
\* run had to write it and the write is refused
ErrorOn(path) ==
    \/ <<path, "read">> \in faults
    \/ <<path, "decode">> \in faults
    \/ /\ <<path, "write">> \in faults
       /\ ~arg[1]
       /\ process_file(path, BeforeRun[path], TRUE).status = "modified"

\* C14: after a run, every file the run hit a read, decode or write error on
\* has status 'skipped' and its old content, and every file that lies neither
\* under an ignored directory nor under a directory that cannot be listed was
\* handed to process_file: the run went on with the remaining files and the
\* sibling directories.
C14_FailureIsolated ==
    fn = "annotate" =>
        /\ \A i \in DOMAIN res.calls :
              ErrorOn(res.calls[i][1]) =>
                  /\ res.calls[i][2] = "skipped"
                  /\ tree[res.calls[i][1]] = BeforeRun[res.calls[i][1]]
        /\ \A p \in DOMAIN tree :
              (~InsideIgnored(p) /\ ~InsideUnlisted(p)) => CallsOn(res.calls, p) # {}

C14_Witness ==
    /\ fn = "annotate"
    /\ passes = 1
    /\ arg = <<FALSE>>
    /\ faults = {<<"a.py", "write">>}
    /\ orig["a.py"] = Plain
    /\ tree["a.py"] = Plain
    /\ <<"a.py", "skipped">> \in {res.calls[i] : i \in DOMAIN res.calls}
    /\ <<"sub/c.py", "modified">> \in {res.calls[i] : i \in DOMAIN res.calls}

\* a run that is about to start has a file it will fail to write
SomeWriteFails ==
    \E p \in DOMAIN tree :
        /\ <<p, "write">> \in faults
        /\ ~InsideIgnored(p)
        /\ ~InsideUnlisted(p)
        /\ process_file(p, tree[p], TRUE).status = "modified"

EntriesOf(files, backup_file) ==
    DOMAIN files \cup (IF backup_file # <<>> THEN {BACKUP_FILENAME} ELSE {})

\* run_calls has one call for every path of counted and no other, the
\* counters of run_stats count the calls by status
CountedOnce(counted, run_calls, run_stats) ==
    /\ \A p \in counted : Cardinality(CallsOn(run_calls, p)) = 1
    /\ \A i \in DOMAIN run_calls : run_calls[i][1] \in counted
    /\ \A s \in {"modified", "skipped", "unchanged"} :
          run_stats[s] = Cardinality(CallsWith(run_calls, s))
    /\ run_stats.modified + run_stats.skipped + run_stats.unchanged = Cardinality(counted)

\* C19 as stated: a run hands every non-directory entry that is not inside an
\* ignored directory to process_file once and counts it in one counter; the
\* counters sum to the number of these entries; a file under an ignored
\* directory is not modified and not counted.
C19_Original ==
    [][fn' = "annotate" =>
          /\ CountedOnce({p \in EntriesOf(tree, backup) : ~InsideIgnored(p)},
                         res'.calls, res'.stats)
          /\ \A p \in DOMAIN tree : InsideIgnored(p) => tree'[p] = tree[p]]_vars

\* C19: a run hands every non-directory entry that is neither inside an
\* ignored directory nor inside a directory that cannot be listed to
\* process_file once and counts it in one counter; the counters sum to the
\* number of these entries; a file under an ignored directory is not
\* modified and not counted.
C19_WalkAccounting ==
    [][fn' = "annotate" =>
          /\ CountedOnce({p \in EntriesOf(tree, backup) :
                             ~InsideIgnored(p) /\ ~InsideUnlisted(p)},
                         res'.calls, res'.stats)
          /\ \A p \in DOMAIN tree : InsideIgnored(p) => tree'[p] = tree[p]]_vars

\* a run over a tree with two ignored directories, the backup file there
C19_Witness ==
    /\ fn = "annotate"
    /\ passes = 2
    /\ faults = {}
    /\ config.ignored_directories = {"gen"}
    /\ backup # <<>>
    /\ Len(res.calls) = 4
    /\ res.stats.skipped = 2
    /\ tree["gen/e.py"] = Plain
    /\ tree["node_modules/d.py"] = Plain

-----------------------------------------------------------------------------
(* The backup of a run and the revert.                                      *)

\* the files whose text differs between two trees
ModifiedFiles(before, after) ==
    {p \in DOMAIN before \cap DOMAIN after : after[p] # before[p]}

\* C16: a run that is no dry run records, by relative path, the text each
\* file it modifies had before the run, and nothing for any other file; a
\* revert right after the run gives every file the run modified the text it
\* had before the run.
C16_RoundTrip ==
    [][/\ (fn' = "annotate" /\ arg' = <<FALSE>>)
              => res'.backup_content = [p \in ModifiedFiles(tree, tree') |-> tree[p]]
       /\ (fn = "annotate" /\ arg = <<FALSE>> /\ fn' = "revert" /\ arg' = <<FALSE>>)
              => \A p \in ModifiedFiles(prev[1], tree) : tree'[p] = prev[1][p]]_vars

\* a revert right after a run that modified both files
C16_Witness ==
    /\ fn = "revert"
    /\ arg = <<FALSE>>
    /\ passes = 2
    /\ res.stats.reverted = 2
    /\ orig = [p \in RevertFiles |-> Plain]
    /\ prev = <<orig>>
    /\ tree = orig
    /\ backup = <<orig>>

\* C17: a revert changes a file only to the text the file had right before
\* the latest run that was no dry run, never to an older text.
C17_RevertsLastRun ==
    [][(fn' = "revert" /\ arg' = <<FALSE>> /\ prev # <<>>)
          => \A p \in ModifiedFiles(tree, tree') :
                 p \in DOMAIN prev[1] /\ tree'[p] = prev[1][p]]_vars

\* the paths of the backup file
BackupEntries(backup_file) == IF backup_file = <<>> THEN {} ELSE DOMAIN backup_file[1]

\* C18: a revert that is no dry run writes the backed-up text into every
\* file of the backup that exists and can be written, creates no file,
\* touches no other file, keeps the backup file, and returns counters with
\* reverted + missing + errors = the number of entries, missing being the
\* entries whose file is gone; with no backup the counters are zero and
\* nothing changes.
C18_RevertAccounting ==
    [][(fn' = "revert" /\ arg' = <<FALSE>>) =>
          /\ backup' = backup
          /\ DOMAIN tree' = DOMAIN tree
          /\ \A p \in DOMAIN tree :
                tree'[p] = IF p \in BackupEntries(backup) /\ <<p, "write">> \notin faults
                           THEN backup[1][p] ELSE tree[p]
          /\ res'.stats.reverted + res'.stats.missing + res'.stats.errors
                 = Cardinality(BackupEntries(backup))
          /\ res'.stats.missing = Cardinality(BackupEntries(backup) \ DOMAIN tree)
          /\ backup = <<>> =>
                 (res'.stats = [reverted |-> 0, missing |-> 0, errors |-> 0] /\ tree' = tree)]_vars

\* a revert of a backup with two entries, one of them a file that is gone
C18_Witness ==
    /\ fn = "revert"
    /\ arg = <<FALSE>>
    /\ res.stats = [reverted |-> 1, missing |-> 1, errors |-> 0]
    /\ Cardinality(BackupEntries(backup)) = 2
    /\ DOMAIN tree = {"a.py"}
    /\ tree["a.py"] = backup[1]["a.py"]

-----------------------------------------------------------------------------
(* The dialect of a file.                                                   *)

\* C20: the dialect lookup returns the pair the tests assert for each of
\* their files, and the entry of the exact-filename table for a file named
\* there, whatever an extension rule or the first line would give.
C20_DialectCoverage ==
    (fn = "style" /\ res # <<>>) =>
        /\ \A e \in TestTable : e[1] = file => res[1] = <<e[2], e[3]>>
        /\ \A e \in SPECIAL_FILE_COMMENTS : e[1] = file => res[1] = <<e[2], e[3]>>

-----------------------------------------------------------------------------
(* The end of the file.                                                     *)

\* the parts of text between its newlines: text.split("\n")
Parts(text) == Split(text, "\n")

-----------------------------------------------------------------------------
(* The header check.                                                        *)

\* the two lines the check may look at: 1-based positions of index i and i+1
FirstTwo(lines, start_index) ==
    {k \in {start_index + 1, start_index + 2} : k <= Len(lines)}

\* the marker, zero or one space, then a label in any case
LabelAnyCase(line, comment_start) ==
    \E sp \in {"", " "} :
        \E label \in {"file:", "filename:", "source:", "path:", "@file"} :
            StartsWith(Lower(line), Lower(comment_start) \o sp \o label)

\* the marker followed by a label in one of the seven spellings of the check
LabelAsSpelled(line, comment_start) ==
    \E rest \in {" File:", "File:", " file:", " Filename:", " @file", " Source:", " Path:"} :
        StartsWith(line, comment_start \o rest)

\* C22 as stated: the check is true iff one of the lines at index i and i+1
\* starts, after stripping, with the marker, zero or one space and one of the
\* labels File:, Filename:, Source:, Path:, @file in any case.
C22_Original ==
    (fn = "has_header" /\ res # <<>>) =>
        (res[1] <=> \E k \in FirstTwo(arg[1], arg[3]) :
                        LabelAnyCase(Strip(arg[1][k]), arg[2]))

\* C22: the check is true iff one of the lines at index i and i+1 starts,
\* after stripping, with the marker followed by exactly ' File:', 'File:',
\* ' file:', ' Filename:', ' @file', ' Source:' or ' Path:'; no line beyond
\* the second is consulted.
C22_IndicatorRule ==
    (fn = "has_header" /\ res # <<>>) =>
        (res[1] <=> \E k \in FirstTwo(arg[1], arg[3]) :
                        LabelAsSpelled(Strip(arg[1][k]), arg[2]))

\* the indicator on the second line of the two, after a metadata line
C22_Witness ==
    /\ fn = "has_header"
    /\ arg = <<(<<"# Author: x", "#File: a", "x">>), "#", 0>>
    /\ res = <<TRUE>>

-----------------------------------------------------------------------------
(* Files without a header.                                                  *)

\* the number of lines before the place of the header: a shebang line, or the
\* leading declarations of an XML-like file
PreambleLen(lines) ==
    IF lines # <<>> /\ StartsWith(lines[1], "#!") THEN 1
    ELSE IF is_special_xml_file(file) THEN LeadingDeclarations(lines)
    ELSE 0

\* the lines that are not blank, in order
NonBlank(lines) == SelectSeq(lines, LAMBDA l : Strip(l) # "")

\* the output is the preamble, the header line, one blank line and then the
\* non-blank lines of body in their order
HeaderThenBody(out, preamble, body) ==
    /\ Take(out, Len(preamble) + 2) = preamble \o <<HeaderLine, "">>
    /\ NonBlank(Drop(out, Len(preamble) + 2)) = NonBlank(body)

\* the lines of the input before and after the place of the header
PreambleOf(lines) == Take(lines, PreambleLen(lines))
BodyOf(lines) == Drop(lines, PreambleLen(lines))

\* some comment line among the first ten lines holds a metadata keyword
HasMetadataLine(lines) == collect_metadata_lines(lines, CommentStart) # <<>>

\* C23: when the first two lines after the preamble carry no primary
\* indicator, a pass removes and moves nothing: the output is the header line,
\* one blank line, then every non-blank line of the input, comment lines
\* included, in the original order.
C23_NothingRemoved ==
    (/\ passes = 1
     /\ NonBlank(BodyOf(SplitLines(orig))) # <<>>
     /\ ~has_existing_header(BodyOf(SplitLines(orig)), CommentStart, 0)) =>
        HeaderThenBody(SplitLines(content), PreambleOf(SplitLines(orig)),
                       BodyOf(SplitLines(orig)))

\* the same for the inputs in which no metadata line is collected
C23_ButMetadata ==
    \/ /\ HasMetadataLine(SplitLines(orig))
       /\ ~StartsWith(orig, "#!")
       /\ ~is_special_xml_file(file)
    \/ C23_NothingRemoved

-----------------------------------------------------------------------------
(* Merge and template.                                                      *)

\* a template is configured
TemplateMode == "header" \in DOMAIN config /\ config.header.template # ""

\* the input has a header: an indicator on its first line after the preamble
HasHeader == has_existing_header(Take(BodyOf(SplitLines(orig)), 1), CommentStart, 0)

RECURSIVE LeadingRun(_, _)
\* the lines of the header span: the leading run of blank and comment lines
LeadingRun(lines, comment_start) ==
    IF lines # <<>> /\ (Strip(lines[1]) = "" \/ StartsWith(Strip(lines[1]), comment_start))
    THEN <<lines[1]>> \o LeadingRun(Tail(lines), comment_start)
    ELSE <<>>

OldSpan == NonBlank(LeadingRun(BodyOf(SplitLines(orig)), CommentStart))

\* the lines of the old span that are not path lines
OldMetadata ==
    SelectSeq(OldSpan, LAMBDA l : \A ind \in header_indicators(CommentStart) :
                                     ~StartsWith(Strip(l), ind))

RECURSIVE UpToBlank(_)
\* the header block of the output: its lines up to the first blank one
UpToBlank(lines) ==
    IF lines # <<>> /\ Strip(lines[1]) # "" THEN <<lines[1]>> \o UpToBlank(Tail(lines))
    ELSE <<>>

Range(seq) == {seq[k] : k \in 1..Len(seq)}

\* C24: with a template and an existing header the header block of the output
\* is exactly the rendered template and below it are the lines of the input
\* after the old span, no line of the span; with no template the lines of the old span that are not path lines are
\* in the header block of the output, whatever other fields are configured.
C24_MergeOrTemplate ==
    (passes = 1 /\ HasHeader) =>
        /\ TemplateMode =>
              /\ UpToBlank(SplitLines(content)) = SplitLines(HeaderLine)
              /\ NonBlank(Drop(SplitLines(content), Len(SplitLines(HeaderLine))))
                    = NonBlank(Drop(SplitLines(orig),
                                    Len(LeadingRun(SplitLines(orig), CommentStart))))
        /\ ~TemplateMode =>
              Range(OldMetadata) \subseteq Range(UpToBlank(SplitLines(content)))

\* the same, but for the one-line templates and the default format of more
\* than one line
C24_ByLineCount ==
    \/ TemplateMode /\ Len(SplitLines(HeaderLine)) = 1
    \/ ~TemplateMode /\ Len(SplitLines(HeaderLine)) > 1
    \/ C24_MergeOrTemplate

-----------------------------------------------------------------------------
(* The path line of a merged header.                                        *)

\* a comment line labelled File:, Filename:, Source:, Path: or @file
Labelled(line, comment_start) ==
    /\ StartsWith(Strip(line), comment_start)
    /\ \E label \in {"File:", "Filename:", "Source:", "Path:", "@file"} :
          StartsWith(Strip(From(Strip(line), Len(comment_start))), label)

\* C25: the merged block holds exactly one path-label line, the fresh
\* "File: <path>" first; no line of the existing header labelled File:,
\* Filename:, Source:, Path: or @file is carried over.
C25_OnePathLine ==
    (fn = "merge" /\ res # <<>>) =>
        /\ Split(res[1], "\n")[1] = create_header_line(arg[3], arg[4], arg[2])
        /\ \A k \in 2..Len(Split(res[1], "\n")) : ~Labelled(Split(res[1], "\n")[k], arg[3])

\* the same for the existing headers with no line labelled Source:
C25_ButSource ==
    Contains(arg[1], "Source:") \/ C25_OnePathLine

-----------------------------------------------------------------------------
(* Metadata of the old header.                                              *)

\* C26: with no template, the metadata comment lines that follow an existing
\* header line are in the header block of the output, in a plain file, under
\* a shebang and under the declarations of an XML-like file.
C26_MetadataSalvaged ==
    (passes = 1 /\ HasHeader /\ ~TemplateMode) =>
        Range(OldMetadata)
            \subseteq Range(UpToBlank(Drop(SplitLines(content),
                                           PreambleLen(SplitLines(orig)))))

\* the same for the files with neither shebang nor XML-like suffix
C26_PlainOnly ==
    StartsWith(orig, "#!") \/ is_special_xml_file(file) \/ C26_MetadataSalvaged

-----------------------------------------------------------------------------
(* Template rendering.                                                      *)

\* the value of a placeholder: the value bound to its name, stripped of the
\* spaces around it, else its default, else nothing
BoundOrDefault(var_expr, variables) ==
    LET bar == Find(var_expr, "|") IN
    IF bar # -1
    THEN Get(variables, Strip(Upto(var_expr, bar)), Strip(From(var_expr, bar + 1)))
    ELSE Get(variables, Strip(var_expr), "")

RECURSIVE Filled(_, _)
\* a template line with every placeholder replaced by its value
Filled(line, variables) ==
    LET open == Find(line, "{")
        close == Find(From(line, open + 1), "}")
    IN IF open = -1 \/ close = -1 THEN line
       ELSE IF close = 0
       THEN Upto(line, open + 1) \o Filled(From(line, open + 1), variables)
       ELSE Upto(line, open)
            \o BoundOrDefault(SubSeq(line, open + 2, open + 1 + close), variables)
            \o Filled(From(line, open + 2 + close), variables)

\* the output has a line for every line of the template: a blank line for a
\* blank one, else the line filled in and wrapped in the markers
RenderedAs(out, lines, variables, comment_start, comment_end) ==
    /\ Len(out) = Len(lines)
    /\ \A k \in 1..Len(lines) :
          out[k] = IF Strip(lines[k]) = "" THEN ""
                   ELSE create_header_line(comment_start, comment_end,
                                           Filled(lines[k], variables))

\* C27: {name} is replaced by the bound value, {name|default} by the bound
\* value or the default, an unbound name with no default by nothing, the name
\* taken with or without spaces around it; every non-blank line is wrapped in
\* the markers, every blank line stays blank, and the output has as many
\* lines as the template.
C27_Rendered ==
    (fn = "render" /\ res # <<>> /\ arg[1] # "") =>
        RenderedAs(Split(res[1], "\n"), SplitLines(arg[1]), arg[2], arg[3], arg[4])

\* the same for the templates with no space inside a placeholder without
\* default
C27_ButSpaces ==
    Contains(arg[1], "{ file_name }") \/ C27_Rendered

-----------------------------------------------------------------------------
(* Comments of the body.                                                    *)

\* the comment lines of the body of a file that had no header, stripped
BodyComments ==
    IF has_existing_header(BodyOf(SplitLines(orig)), CommentStart, 0) THEN {}
    ELSE {Strip(l) : l \in {b \in Range(BodyOf(SplitLines(orig))) :
                               StartsWith(Strip(b), CommentStart)}}

\* C28: after any number of passes every comment line the original file had
\* in its body is still in the file, in a plain file, under a shebang and
\* under the declarations of an XML-like file.
C28_CommentsSurvive ==
    passes >= 1 => BodyComments \subseteq {Strip(l) : l \in Range(SplitLines(content))}

\* the same after the first pass only
C28_FirstPass ==
    passes = 1 => BodyComments \subseteq {Strip(l) : l \in Range(SplitLines(content))}

-----------------------------------------------------------------------------
(* Convergence of repeated passes.                                          *)

\* C29: repeated passes reach a fixed point: by the last pass of a run the
\* pass returns "unchanged" and leaves the file as it was, the number of lines
\* growing no further.
C29_Converges ==
    passes = MaxPasses => (status = "unchanged" /\ content = prev)

\* the same for the files other than the Lisp file
C29_ButLisp ==
    file = "a.lisp" \/ C29_Converges

\* a pass that returns "unchanged" is followed by passes that do
C29_Stable ==
    [][status = "unchanged" => status' = "unchanged"]_vars

-----------------------------------------------------------------------------
(* Block comments.                                                          *)

RECURSIVE Balanced(_, _, _, _)
\* every end marker of text is preceded by its start marker; open says that
\* text begins inside a comment
Balanced(text, open, comment_start, comment_end) ==
    LET i == Find(text, comment_start)
        j == Find(text, comment_end)
    IN IF j = -1 THEN TRUE
       ELSE IF open THEN Balanced(From(text, j + Len(comment_end)), FALSE,
                                  comment_start, comment_end)
       ELSE IF i # -1 /\ i < j
       THEN Balanced(From(text, i + Len(comment_start)), TRUE, comment_start, comment_end)
       ELSE FALSE

\* the header of the input is one comment of several lines: the start marker
\* and a path label on the first line, the end marker on a later line
MultiLineHeader ==
    LET lines == SplitLines(orig) IN
    /\ Len(lines) >= 2
    /\ has_existing_header(Take(lines, 1), CommentStart, 0)
    /\ ~Contains(lines[1], CommentEnd)
    /\ Balanced(orig, FALSE, CommentStart, CommentEnd)

\* C30: in a block-comment dialect, when the existing header is one comment
\* of several lines, the output leaves no continuation or closing line
\* outside a comment: every end marker is preceded by its start marker.
C30_BlockBalanced ==
    (passes >= 1 /\ CommentEnd # "" /\ MultiLineHeader) =>
        Balanced(content, FALSE, CommentStart, CommentEnd)

\* a file whose comments are balanced and whose header is on one line keeps
\* its comments balanced
C30_OneLineHeader ==
    (/\ passes >= 1
     /\ CommentEnd # ""
     /\ Balanced(orig, FALSE, CommentStart, CommentEnd)
     /\ \A k \in 1..Len(SplitLines(orig)) :
           Contains(SplitLines(orig)[k], CommentStart)
               => Contains(SplitLines(orig)[k], CommentEnd)) =>
        Balanced(content, FALSE, CommentStart, CommentEnd)

====
